---------------------------- MODULE Spec2Model ----------------------------
(***************************************************************************)
(* A model of jt::Json (src/json.h, src/json.cpp): the recursive-descent   *)
(* parser, the serializer and the value tree.                              *)
(*                                                                         *)
(* Texts are sequences of bytes 0..255, indexed from 1; a cursor p is the  *)
(* index of the next byte to read and the end sentinel e is Len(s) + 1.    *)
(* A Json value is a record with a field type (the JsonType tag) and,      *)
(* for every kind but Null, the member of the union that is live:          *)
(*   Bool    bool_value : BOOLEAN                                          *)
(*   Long    long_value : [neg, mag]  sign and decimal digits              *)
(*   Float   float_value, Double  double_value : a decimal, see MkDec      *)
(*   String  string_value_ : sequence of bytes (NUL bytes included)        *)
(*   Array   array_value : sequence of values (std::vector<Json>)          *)
(*   Object  object_value : sequence of [k, v] records in ascending key    *)
(*           order, keys unique (std::map<std::string, Json>)              *)
(***************************************************************************)
EXTENDS Integers, Sequences, FiniteSets, TLC

VARIABLES
    input,          \* the bytes handed to Json::parse
    emplaceMoves,   \* whether map::emplace moves from its arguments when
                    \* the key is already present (a fact of the build)
    pc,             \* where the calling program stands
    res,            \* the pair returned by Json::parse on input
    v,              \* the Json the program holds
    text,           \* the std::string returned by toString
    res2,           \* the pair returned by Json::parse on text
    nops,           \* the number of building calls made on v
    call,           \* the last operator[] or getter called on v alone
    mem             \* the values of the allocation program and the blocks on loan

vars == <<input, emplaceMoves, pc, res, v, text, res2, nops, call, mem>>

---------------------------------------------------------------------------
(* Context bitmask and depth limit, src/json.cpp:95-100 *)

KEY == 1
COMMA == 2
COLON == 4
ARRAY == 8
OBJECT == 16
DEPTH == 20

\* context & flag, for a single-bit flag
Has(context, flag) == (context \div flag) % 2 = 1

---------------------------------------------------------------------------
(* Loops.  A loop of the code is modelled by the operator Step of one turn *)
(* acting on a record of the loop's variables, whose field done is TRUE    *)
(* once the loop has been left.  Iterate runs up to 2^k turns and stops at *)
(* the first state that is done; it nests k deep, not once per turn.  The   *)
(* state after the first half of the turns is bound through a one-element  *)
(* set, so that it is computed once wherever the loop is evaluated.        *)

RECURSIVE Iterate(_, _, _)
Iterate(Step(_), k, st) ==
    IF k = 0 THEN (IF st.done THEN st ELSE Step(st))
    ELSE CHOOSE r \in {IF m.done THEN m ELSE Iterate(Step, k - 1, m) :
                          m \in {Iterate(Step, k - 1, st)}} : TRUE

\* Loops run for at most 2^IterateLog turns, more than any text or value of
\* the model needs
IterateLog == 10

---------------------------------------------------------------------------
(* Byte predicates *)

Byte == 0..255

isdigit(c) == c >= 48 /\ c <= 57

\* (x & 0300) == 0200
ThomPikeCont(x) == x >= \o200 /\ x <= \o277

\* JSON whitespace of the dispatch loop: ' ' '\n' '\r' '\t'
IsJsonSpace(c) == c \in {32, 10, 13, 9}

IsSurrogate(wc) == (wc \div \h800) % 32 = 27

IsHighSurrogate(wc) == (wc \div \h400) % 64 = 54

IsLowSurrogate(wc) == (wc \div \h400) % 64 = 55

MergeUtf16_NoPlaneOffset(hi, lo) == ((hi - \hD800) * 1024) + (lo - \hDC00)

MergeUtf16(hi, lo) == ((hi - \hD800) * 1024) + (lo - \hDC00) + \h10000

\* kHexToInt: the value of a hexadecimal digit, -1 for any other byte
kHexToInt(c) ==
    IF c >= 48 /\ c <= 57 THEN c - 48
    ELSE IF c >= 65 /\ c <= 70 THEN c - 55
    ELSE IF c >= 97 /\ c <= 102 THEN c - 87
    ELSE -1

\* kJsonStr with the rows 0240..0277 filled with 0: the bytes A0..BF are
\* classed ASCII and copied as they are
kJsonStr_Latin1AsAscii(c) ==
    IF c < \o40 THEN "C0"
    ELSE IF c = \o42 THEN "DQUOTE"
    ELSE IF c = \o134 THEN "BACKSLASH"
    ELSE IF c < \o200 THEN "ASCII"
    ELSE IF c < \o240 THEN "C1"
    ELSE IF c < \o300 THEN "ASCII"
    ELSE IF c < \o302 THEN "EVILUTF8"
    ELSE IF c < \o340 THEN "UTF8_2"
    ELSE IF c = \o340 THEN "UTF8_3_E0"
    ELSE IF c = \o355 THEN "UTF8_3_ED"
    ELSE IF c < \o360 THEN "UTF8_3"
    ELSE IF c = \o360 THEN "UTF8_4_F0"
    ELSE IF c < \o365 THEN "UTF8_4"
    ELSE "BADUTF8"

\* kJsonStr: the class of a byte met in a string body
kJsonStr(c) ==
    IF c < \o40 THEN "C0"
    ELSE IF c = \o42 THEN "DQUOTE"
    ELSE IF c = \o134 THEN "BACKSLASH"
    ELSE IF c < \o200 THEN "ASCII"
    ELSE IF c < \o240 THEN "C1"
    ELSE IF c < \o300 THEN "BADUTF8"
    ELSE IF c < \o302 THEN "EVILUTF8"
    ELSE IF c < \o340 THEN "UTF8_2"
    ELSE IF c = \o340 THEN "UTF8_3_E0"
    ELSE IF c = \o355 THEN "UTF8_3_ED"
    ELSE IF c < \o360 THEN "UTF8_3"
    ELSE IF c = \o360 THEN "UTF8_4_F0"
    ELSE IF c < \o365 THEN "UTF8_4"
    ELSE "BADUTF8"

---------------------------------------------------------------------------
(* Values *)

Null == [type |-> "Null"]

MkBool(b) == [type |-> "Bool", bool_value |-> b]

MkLong(x) == [type |-> "Long", long_value |-> x]

MkFloat(d) == [type |-> "Float", float_value |-> d]

MkDouble(d) == [type |-> "Double", double_value |-> d]

MkString(b) == [type |-> "String", string_value_ |-> b]

EmptyArray == [type |-> "Array", array_value |-> <<>>]

EmptyObject == [type |-> "Object", object_value |-> <<>>]

\* std::string comparison: lexicographic on unsigned bytes
RECURSIVE StrLess(_, _)
StrLess(a, b) ==
    IF b = <<>> THEN FALSE
    ELSE IF a = <<>> THEN TRUE
    ELSE IF Head(a) # Head(b) THEN Head(a) < Head(b)
    ELSE StrLess(Tail(a), Tail(b))

\* std::map::find
MapContains(m, k) == \E i \in DOMAIN m : m[i].k = k

MapGet(m, k) == m[CHOOSE i \in DOMAIN m : m[i].k = k].v

\* a map that keeps its entries in the order of their insertion
MapEmplace_Appends(m, k, val) ==
    IF MapContains(m, k) THEN m
    ELSE Append(m, [k |-> k, v |-> val])

\* std::map::emplace: inserts at the key's place when the key is absent,
\* leaves the map as it is when the key is present
MapEmplace(m, k, val) ==
    IF MapContains(m, k) THEN m
    ELSE LET n == Cardinality({i \in DOMAIN m : StrLess(m[i].k, k)})
         IN  SubSeq(m, 1, n) \o <<[k |-> k, v |-> val]>> \o SubSeq(m, n + 1, Len(m))

---------------------------------------------------------------------------
(* String tokenizer, src/json.cpp:898-937 and 1155-1411 *)

\* EncodeUTF8: the bytes written to w[0..i-1]. w[0] = c keeps the low byte.
EncodeUTF8(c) ==
    IF c <= \h7F THEN <<c % 256>>
    ELSE IF c <= \h7FF THEN <<\o300 + (c \div 64), \o200 + (c % 64)>>
    ELSE IF c <= \hFFFF THEN
        LET c1 == IF IsSurrogate(c) THEN \hFFFD ELSE c
        IN  <<\o340 + (c1 \div 4096), \o200 + ((c1 \div 64) % 64), \o200 + (c1 % 64)>>
    ELSE IF (c \div 262144) % 8 # 7 THEN
        <<\o360 + ((c \div 262144) % 8), \o200 + ((c \div 4096) % 64),
          \o200 + ((c \div 64) % 64), \o200 + (c % 64)>>
    ELSE <<\o357, \o277, \o275>>

BadUnicode_ReplacementCharacter == <<239, 191, 189>>

\* BadUnicode: the two bytes '\\' 'u' echoed for an invalid \uXXXX sequence
BadUnicode == <<92, 117>>

\* s[p+i], the byte p[i] of the source, for an index inside the text
At(s, p, i) == s[p + i]

\* Four hexadecimal digits at p[i..i+3], or -1 when one of them is no digit
Hex4(s, p, i) ==
    LET A == kHexToInt(At(s, p, i))
        B == kHexToInt(At(s, p, i + 1))
        C == kHexToInt(At(s, p, i + 2))
        D == kHexToInt(At(s, p, i + 3))
    IN  IF A = -1 \/ B = -1 \/ C = -1 \/ D = -1 THEN -1
        ELSE A * 4096 + B * 256 + C * 16 + D

StrRet(status, p, add, done) == [status |-> status, p |-> p, add |-> add, done |-> done]

\* StringEscape taking every \xHH, printable or not
StringEscape_AnyByte(s, p) ==
    LET e == Len(s) + 1 IN
    IF p >= e THEN StrRet("unexpected_end_of_string", p, <<>>, FALSE)
    ELSE
    LET c == s[p]
        q == p + 1
    IN  IF c \in {34, 47, 92} THEN StrRet("success", q, <<c>>, FALSE)
        ELSE IF c = 98 THEN StrRet("success", q, <<8>>, FALSE)
        ELSE IF c = 102 THEN StrRet("success", q, <<12>>, FALSE)
        ELSE IF c = 110 THEN StrRet("success", q, <<10>>, FALSE)
        ELSE IF c = 114 THEN StrRet("success", q, <<13>>, FALSE)
        ELSE IF c = 116 THEN StrRet("success", q, <<9>>, FALSE)
        ELSE IF c = 120 THEN
            IF q + 2 <= e /\ kHexToInt(At(s, q, 0)) # -1 /\ kHexToInt(At(s, q, 1)) # -1
            THEN LET x == kHexToInt(At(s, q, 0)) * 16 + kHexToInt(At(s, q, 1))
                 IN  IF FALSE
                     THEN StrRet("hex_escape_not_printable", q, <<>>, FALSE)
                     ELSE StrRet("success", q + 2, <<x>>, FALSE)
            ELSE StrRet("invalid_hex_escape", q, <<>>, FALSE)
        ELSE IF c = 117 THEN
            IF q + 4 <= e /\ Hex4(s, q, 0) # -1
            THEN LET u1 == Hex4(s, q, 0)
                 IN  IF ~IsSurrogate(u1)
                     THEN StrRet("success", q + 4, EncodeUTF8(u1), FALSE)
                     ELSE IF IsHighSurrogate(u1)
                     THEN IF q + 4 + 6 <= e /\ At(s, q, 4) = 92 /\ At(s, q, 5) = 117
                             /\ Hex4(s, q, 6) # -1
                          THEN LET u2 == Hex4(s, q, 6)
                               IN  IF IsLowSurrogate(u2)
                                   THEN StrRet("success", q + 4 + 6,
                                               EncodeUTF8(MergeUtf16(u1, u2)), FALSE)
                                   ELSE StrRet("success", q, BadUnicode, FALSE)
                          ELSE StrRet("success", q, BadUnicode, FALSE)
                     ELSE StrRet("success", q, BadUnicode, FALSE)
            ELSE StrRet("invalid_unicode_escape", q, <<>>, FALSE)
        ELSE StrRet("invalid_escape_character", q, <<>>, FALSE)

\* case BACKSLASH of the string switch; p is the cursor after the backslash
StringEscape(s, p) ==
    LET e == Len(s) + 1 IN
    IF p >= e THEN StrRet("unexpected_end_of_string", p, <<>>, FALSE)
    ELSE
    LET c == s[p]
        q == p + 1
    IN  IF c \in {34, 47, 92} THEN StrRet("success", q, <<c>>, FALSE)
        ELSE IF c = 98 THEN StrRet("success", q, <<8>>, FALSE)
        ELSE IF c = 102 THEN StrRet("success", q, <<12>>, FALSE)
        ELSE IF c = 110 THEN StrRet("success", q, <<10>>, FALSE)
        ELSE IF c = 114 THEN StrRet("success", q, <<13>>, FALSE)
        ELSE IF c = 116 THEN StrRet("success", q, <<9>>, FALSE)
        ELSE IF c = 120 THEN
            IF q + 2 <= e /\ kHexToInt(At(s, q, 0)) # -1 /\ kHexToInt(At(s, q, 1)) # -1
            THEN LET x == kHexToInt(At(s, q, 0)) * 16 + kHexToInt(At(s, q, 1))
                 IN  IF ~(\h20 <= x /\ x <= \h7E)
                     THEN StrRet("hex_escape_not_printable", q, <<>>, FALSE)
                     ELSE StrRet("success", q + 2, <<x>>, FALSE)
            ELSE StrRet("invalid_hex_escape", q, <<>>, FALSE)
        ELSE IF c = 117 THEN
            IF q + 4 <= e /\ Hex4(s, q, 0) # -1
            THEN LET u1 == Hex4(s, q, 0)
                 IN  IF ~IsSurrogate(u1)
                     THEN StrRet("success", q + 4, EncodeUTF8(u1), FALSE)
                     ELSE IF IsHighSurrogate(u1)
                     THEN IF q + 4 + 6 <= e /\ At(s, q, 4) = 92 /\ At(s, q, 5) = 117
                             /\ Hex4(s, q, 6) # -1
                          THEN LET u2 == Hex4(s, q, 6)
                               IN  IF IsLowSurrogate(u2)
                                   THEN StrRet("success", q + 4 + 6,
                                               EncodeUTF8(MergeUtf16(u1, u2)), FALSE)
                                   ELSE StrRet("success", q, BadUnicode, FALSE)
                          ELSE StrRet("success", q, BadUnicode, FALSE)
                     ELSE StrRet("success", q, BadUnicode, FALSE)
            ELSE StrRet("invalid_unicode_escape", q, <<>>, FALSE)
        ELSE StrRet("invalid_escape_character", q, <<>>, FALSE)

\* case UTF8_3 of the string switch; c is the lead byte, p the cursor after it
StringUtf8_3(s, p, c) ==
    LET e == Len(s) + 1 IN
    IF p + 2 <= e /\ ThomPikeCont(At(s, p, 0)) /\ ThomPikeCont(At(s, p, 1))
    THEN StrRet("success", p + 2,
                EncodeUTF8((c % 16) * 4096 + (At(s, p, 0) % 64) * 64 + (At(s, p, 1) % 64)),
                FALSE)
    ELSE StrRet("malformed_utf8", p, <<>>, FALSE)

\* case UTF8_3_ED: a CESU-8 pair is decoded and appended, and the cursor is
\* left where it was (the branch holds no p += 5)
StringUtf8_3_ED(s, p, c) ==
    LET e == Len(s) + 1 IN
    IF p + 2 <= e /\ At(s, p, 0) >= \o240
    THEN IF p + 5 <= e /\ At(s, p, 0) >= \o256 /\ ThomPikeCont(At(s, p, 1))
            /\ At(s, p, 2) = \o355 /\ At(s, p, 3) >= \o260 /\ ThomPikeCont(At(s, p, 4))
         THEN LET A == (\o355 % 16) * 4096 + (At(s, p, 0) % 64) * 64 + (At(s, p, 1) % 64)
                  B == (\o355 % 16) * 4096 + (At(s, p, 3) % 64) * 64 + (At(s, p, 4) % 64)
                  cp == ((A - \hDB80) * 1024) + ((B - \hDC00) + \h10000)
              IN  StrRet("success", p, EncodeUTF8(cp), FALSE)
         ELSE IF ThomPikeCont(At(s, p, 0)) /\ ThomPikeCont(At(s, p, 1))
         THEN StrRet("utf16_surrogate_in_utf8", p, <<>>, FALSE)
         ELSE StrRet("malformed_utf8", p, <<>>, FALSE)
    ELSE StringUtf8_3(s, p, c)

\* case UTF8_3_E0
StringUtf8_3_E0(s, p, c) ==
    LET e == Len(s) + 1 IN
    IF p + 2 <= e /\ At(s, p, 0) < \o240 /\ ThomPikeCont(At(s, p, 0))
       /\ ThomPikeCont(At(s, p, 1))
    THEN StrRet("overlong_utf8_0x7ff", p, <<>>, FALSE)
    ELSE StringUtf8_3(s, p, c)

\* case UTF8_4; the word read at p[-1..2] has the lead byte in its low byte
StringUtf8_4(s, p, c) ==
    LET e == Len(s) + 1 IN
    IF p + 3 <= e /\ ThomPikeCont(At(s, p, 0)) /\ ThomPikeCont(At(s, p, 1))
       /\ ThomPikeCont(At(s, p, 2))
    THEN LET A == (c % 8) * 262144 + (At(s, p, 0) % 64) * 4096
                  + (At(s, p, 1) % 64) * 64 + (At(s, p, 2) % 64)
         IN  IF A <= \h10FFFF
             THEN StrRet("success", p + 3, EncodeUTF8(A), FALSE)
             ELSE StrRet("utf8_exceeds_utf16_range", p, <<>>, FALSE)
    ELSE StrRet("malformed_utf8", p, <<>>, FALSE)

\* case UTF8_4_F0
StringUtf8_4_F0(s, p, c) ==
    LET e == Len(s) + 1 IN
    IF p + 3 <= e /\ At(s, p, 0) < \o220 /\ ThomPikeCont(At(s, p, 0))
       /\ ThomPikeCont(At(s, p, 1)) /\ ThomPikeCont(At(s, p, 2))
    THEN StrRet("overlong_utf8_0xffff", p, <<>>, FALSE)
    ELSE StringUtf8_4(s, p, c)

\* One iteration of the string loop, entered with p < e
StringStep(s, p) ==
    LET e == Len(s) + 1
        c == s[p]
        q == p + 1
        k == kJsonStr(c)
    IN  IF k = "ASCII" THEN StrRet("success", q, <<c>>, FALSE)
        ELSE IF k = "DQUOTE" THEN StrRet("success", q, <<>>, TRUE)
        ELSE IF k = "BACKSLASH" THEN StringEscape(s, q)
        ELSE IF k = "UTF8_2" THEN
            IF q < e /\ ThomPikeCont(At(s, q, 0))
            THEN StrRet("success", q + 1, EncodeUTF8((c % 32) * 64 + (At(s, q, 0) % 64)), FALSE)
            ELSE StrRet("malformed_utf8", q, <<>>, FALSE)
        ELSE IF k = "UTF8_3_E0" THEN StringUtf8_3_E0(s, q, c)
        ELSE IF k = "UTF8_3_ED" THEN StringUtf8_3_ED(s, q, c)
        ELSE IF k = "UTF8_3" THEN StringUtf8_3(s, q, c)
        ELSE IF k = "UTF8_4_F0" THEN StringUtf8_4_F0(s, q, c)
        ELSE IF k = "UTF8_4" THEN StringUtf8_4(s, q, c)
        ELSE IF k = "EVILUTF8" THEN
            IF q < e /\ ThomPikeCont(At(s, q, 0))
            THEN StrRet("overlong_ascii", q, <<>>, FALSE)
            ELSE StrRet("illegal_utf8_character", q, <<>>, FALSE)
        ELSE IF k = "BADUTF8" THEN StrRet("illegal_utf8_character", q, <<>>, FALSE)
        ELSE IF k = "C0" THEN StrRet("non_del_c0_control_code_in_string", q, <<>>, FALSE)
        ELSE IF k = "C1" THEN StrRet("c1_control_code_in_string", q, <<>>, FALSE)
        ELSE StrRet("internal_error_unreachable_code", q, <<>>, FALSE)

\* The loop state st after a turn whose result is r
StringLoopTurn(st, r) ==
    [done |-> r.done \/ r.status # "success", status |-> r.status,
     p |-> r.p, b |-> st.b \o r.add, closed |-> r.done]

\* StringLoopStep reporting the end of the input as the dispatch loop does
StringLoopStep_EofStatus(s, st) ==
    IF st.p >= Len(s) + 1
    THEN [st EXCEPT !.done = TRUE, !.status = "unexpected_eof"]
    ELSE StringLoopTurn(st, StringStep(s, st.p))

\* One turn of while(!bDone && status == success) on the loop state st:
\* st.p is the cursor, st.b the string built so far, st.closed is bDone
StringLoopStep(s, st) ==
    IF st.p >= Len(s) + 1
    THEN [st EXCEPT !.done = TRUE, !.status = "unexpected_end_of_string"]
    ELSE StringLoopTurn(st, StringStep(s, st.p))

\* The whole loop.  The result holds the final status, cursor and buffer,
\* and closed tells whether the closing quote was met.
StringLoop(s, p, b) ==
    Iterate(LAMBDA st : StringLoopStep(s, st), IterateLog,
            [done |-> FALSE, status |-> "success", p |-> p, b |-> b,
             closed |-> FALSE])

---------------------------------------------------------------------------
(* Numbers.  A long long is kept as its sign and its decimal digits, so    *)
(* that the 64-bit range is exact: [neg |-> BOOLEAN, mag |-> digits], the   *)
(* digits without leading zeros, <<0>> for zero.                           *)

LongZero == [neg |-> FALSE, mag |-> <<0>>]

\* The digits of LLONG_MAX = 2^63 - 1 and of -(LLONG_MIN) = 2^63
LLONG_MAX_MAG == <<9,2,2,3,3,7,2,0,3,6,8,5,4,7,7,5,8,0,7>>

LLONG_MIN_MAG == <<9,2,2,3,3,7,2,0,3,6,8,5,4,7,7,5,8,0,8>>

RECURSIVE DigitsLess(_, _)
DigitsLess(a, b) ==
    IF a = <<>> THEN FALSE
    ELSE IF Head(a) # Head(b) THEN Head(a) < Head(b)
    ELSE DigitsLess(Tail(a), Tail(b))

\* a < b for two magnitudes without leading zeros
MagLess(a, b) ==
    IF Len(a) # Len(b) THEN Len(a) < Len(b) ELSE DigitsLess(a, b)

\* LLONG_MIN <= x <= LLONG_MAX
InLongRange(neg, mag) ==
    IF neg THEN ~MagLess(LLONG_MIN_MAG, mag) ELSE ~MagLess(LLONG_MAX_MAG, mag)

\* ckd_mul(&x, x, 10): [ovf, x]; x is meaningful only without overflow
ckd_mul10(x) ==
    LET m == IF x.mag = <<0>> THEN <<0>> ELSE Append(x.mag, 0)
    IN  [ovf |-> ~InLongRange(x.neg, m), x |-> [neg |-> x.neg, mag |-> m]]

\* ckd_add(&x, x, digit * d) for x a multiple of ten whose sign, if any, is
\* the sign of d
ckd_add_digit(x, digit, d) ==
    LET m == IF x.mag = <<0>> THEN <<digit>>
             ELSE SubSeq(x.mag, 1, Len(x.mag) - 1) \o <<digit>>
        n == IF m = <<0>> THEN FALSE ELSE d = -1
    IN  [ovf |-> ~InLongRange(n, m), x |-> [neg |-> n, mag |-> m]]

RECURSIVE NatDigits(_)
NatDigits(n) == IF n < 10 THEN <<n>> ELSE Append(NatDigits(n \div 10), n % 10)

\* The ASCII text of a digit sequence
DigitText(ds) == [i \in DOMAIN ds |-> ds[i] + 48]

\* UlongToString / LongToString, src/json.cpp:274-301
LongToString(x) == (IF x.neg THEN <<45>> ELSE <<>>) \o DigitText(x.mag)

---------------------------------------------------------------------------
(* The double-conversion library (double-conversion/*.h, configured at     *)
(* src/json.cpp:211-230).  A double is kept as the decimal it stands for:  *)
(*   [cls |-> "fin", neg, digits, point]  0.d1d2...dn * 10^point, digits   *)
(*        without leading or trailing zeros; zero has no digits, no sign   *)
(*   [cls |-> "inf", neg, ...]  and  [cls |-> "nan", ...]                  *)
(* This is exact for literals of at most 15 significant digits, where the  *)
(* shortest decimal that reads back as the double is the literal's own     *)
(* value.  The binary rounding of longer literals and the sign of a zero   *)
(* are not kept.                                                           *)

MkDec(cls, neg, digits, point) ==
    [cls |-> cls, neg |-> neg, digits |-> digits, point |-> point]

DecZero == MkDec("fin", FALSE, <<>>, 0)

DecInf(neg) == MkDec("inf", neg, <<>>, 0)

DecNaN == MkDec("nan", FALSE, <<>>, 0)

\* Largest and smallest decimal point of a finite non-zero binary64
MaxDecimalPoint == 309

MinDecimalPoint == 0 - 323

RECURSIVE StripLeadingZeros(_)
StripLeadingZeros(ds) ==
    IF ds # <<>> /\ Head(ds) = 0 THEN StripLeadingZeros(Tail(ds)) ELSE ds

RECURSIVE StripTrailingZeros(_)
StripTrailingZeros(ds) ==
    IF ds # <<>> /\ ds[Len(ds)] = 0
    THEN StripTrailingZeros(SubSeq(ds, 1, Len(ds) - 1)) ELSE ds

\* The double whose decimal digits are ds (integer part of ni digits) times
\* 10^ex: overflow gives infinity, underflow zero
DecOf(neg, ds, ni, ex) ==
    LET nz == StripLeadingZeros(ds)
        point == ni - (Len(ds) - Len(nz)) + ex
        sig == StripTrailingZeros(nz)
    IN  IF sig = <<>> THEN DecZero
        ELSE IF point > MaxDecimalPoint THEN DecInf(neg)
        ELSE IF point < MinDecimalPoint THEN DecZero
        ELSE MkDec("fin", neg, sig, point)

\* The library's isWhitespace for a byte below 128
ConverterSpace(c) == c \in {32, 13, 10, 9, 11, 12}

\* The index after the run of bytes satisfying digits (TRUE) or
\* ConverterSpace (FALSE) that starts at i
RECURSIVE RunEnd(_, _, _)
RunEnd(s, i, digits) ==
    IF i <= Len(s) /\ (IF digits THEN isdigit(s[i]) ELSE ConverterSpace(s[i]))
    THEN RunEnd(s, i + 1, digits) ELSE i

\* The decimal exponent read from the digits s[i..j-1], saturating
RECURSIVE ExpNum(_, _, _, _)
ExpNum(s, i, j, num) ==
    IF i >= j THEN num
    ELSE ExpNum(s, i + 1, j, IF num >= 100000 THEN num ELSE num * 10 + (s[i] - 48))

\* The value and the count of processed bytes, once the text s[a..] has
\* been cut: sign neg, integer digits s[i1..i2-1], fraction digits
\* s[i2+1..i3-1] when s[i2] is '.' (else i3 = i2), exponent digits
\* s[j0..j1-1] after an 'e' at s[i3] (hasE), and last the index after the
\* trailing spaces
ConverterValue(s, a, neg, i1, i2, i3, minus, j0, j1, last) ==
    IF i3 - i1 - (IF i3 > i2 THEN 1 ELSE 0) = 0
    THEN [value |-> MkDec("fin", FALSE, <<1>>, 1), processed |-> 0]
    ELSE [value |-> DecOf(neg,
                          [k \in 1..(i3 - i1 - (IF i3 > i2 THEN 1 ELSE 0)) |->
                              IF k <= i2 - i1 THEN s[i1 + k - 1] - 48
                              ELSE s[i2 + (k - (i2 - i1))] - 48],
                          i2 - i1,
                          IF minus THEN 0 - ExpNum(s, j0, j1, 0) ELSE ExpNum(s, j0, j1, 0)),
          processed |-> last - a]

\* After the exponent digits.  An 'e' with no exponent digits after it is
\* trailing junk: the count stops before it, and the trailing spaces are
\* not reached.
ConverterExponent(s, a, neg, i1, i2, i3, hasE, j0, j1) ==
    ConverterValue(s, a, neg, i1, i2, i3,
                   hasE /\ j1 > j0 /\ s[i3 + 1] = 45,
                   IF hasE /\ j1 > j0 THEN j0 ELSE j1, j1,
                   IF hasE /\ j1 = j0 THEN i3
                   ELSE RunEnd(s, IF hasE THEN j1 ELSE i3, FALSE))

\* After the fraction: an optional 'e', an optional sign, digits
ConverterFraction(s, a, neg, i1, i2, i3, hasE, j0) ==
    ConverterExponent(s, a, neg, i1, i2, i3, hasE, j0,
                      IF hasE THEN RunEnd(s, j0, TRUE) ELSE j0)

\* After the integer digits: an optional '.' and digits
ConverterInteger(s, a, neg, i1, i2, i3) ==
    ConverterFraction(s, a, neg, i1, i2, i3,
                      i3 <= Len(s) /\ s[i3] \in {101, 69},
                      IF i3 + 1 <= Len(s) /\ s[i3 + 1] \in {43, 45} THEN i3 + 2
                      ELSE i3 + 1)

\* After the sign: the integer digits
ConverterSign(s, a, neg, i1, i2) ==
    ConverterInteger(s, a, neg, i1, i2,
                     IF i2 <= Len(s) /\ s[i2] = 46 THEN RunEnd(s, i2 + 1, TRUE)
                     ELSE i2)

\* After the leading spaces: an optional sign
ConverterLeading(s, a, i0) ==
    ConverterSign(s, a, i0 <= Len(s) /\ s[i0] = 45,
                  IF i0 <= Len(s) /\ s[i0] \in {43, 45} THEN i0 + 1 ELSE i0,
                  RunEnd(s, IF i0 <= Len(s) /\ s[i0] \in {43, 45} THEN i0 + 1 ELSE i0,
                         TRUE))

\* StringToDoubleConverter::StringToDouble on the bytes s[a..], with
\* ALLOW_LEADING_SPACES, ALLOW_TRAILING_SPACES and ALLOW_TRAILING_JUNK:
\* [value, processed].  A text with no digit is junk: the junk value 1.0
\* and a count of 0.
ConverterStringToDouble(s, a) == ConverterLeading(s, a, RunEnd(s, a, FALSE))

\* StringToDouble, src/json.cpp:262-272
StringToDouble(s, a) == ConverterStringToDouble(s, a)

RECURSIVE Zeros(_)
Zeros(n) == IF n <= 0 THEN <<>> ELSE <<48>> \o Zeros(n - 1)

\* DoubleToStringConverter::ToShortest with the flags of kDoubleToJson:
\* UNIQUE_ZERO, EMIT_POSITIVE_EXPONENT_SIGN, infinity "1e5000", NaN "null",
\* exponent character 'e', decimal notation for exponents in [-6, 21)
ConverterToShortest(d) ==
    IF d.cls = "nan" THEN <<110, 117, 108, 108>>
    ELSE IF d.cls = "inf"
    THEN (IF d.neg THEN <<45>> ELSE <<>>) \o <<49, 101, 53, 48, 48, 48>>
    ELSE IF d.digits = <<>> THEN <<48>>
    ELSE
    LET n == Len(d.digits)
        tx == DigitText(d.digits)
        exponent == d.point - 1
        body ==
            IF 0 - 6 <= exponent /\ exponent < 21
            THEN IF d.point <= 0
                 THEN <<48, 46>> \o Zeros(0 - d.point) \o tx
                 ELSE IF d.point >= n THEN tx \o Zeros(d.point - n)
                 ELSE SubSeq(tx, 1, d.point) \o <<46>> \o SubSeq(tx, d.point + 1, n)
            ELSE <<tx[1]>>
                 \o (IF n # 1 THEN <<46>> \o SubSeq(tx, 2, n) ELSE <<>>)
                 \o <<101>>
                 \o (IF exponent < 0 THEN <<45>> ELSE <<43>>)
                 \o DigitText(NatDigits(IF exponent < 0 THEN 0 - exponent ELSE exponent))
    IN  (IF d.neg THEN <<45>> ELSE <<>>) \o body

\* DoubleToStringConverter::ToShortestSingle: a float is kept as the
\* decimal of its shortest text
ConverterToShortestSingle(d) == ConverterToShortest(d)

---------------------------------------------------------------------------
(* Structural parser, src/json.cpp:884-896 and 939-1417 *)

ReturnColonCommaErrorStatus(context) ==
    IF Has(context, COLON) THEN "missing_colon" ELSE "missing_comma"

\* ReturnColonCommaKeyErrorStatus without its test of KEY
ReturnColonCommaKeyErrorStatus_NoKeyTest(context) ==
    ReturnColonCommaErrorStatus(context)

ReturnColonCommaKeyErrorStatus(context) ==
    IF Has(context, KEY) THEN "object_key_must_be_string"
    ELSE ReturnColonCommaErrorStatus(context)

Ret(status, p, json) == [status |-> status, p |-> p, json |-> json]

\* READ32LE(p) == READ32LE(lit): the four bytes at s[i..i+3] are those of lit
Read32Is(s, i, lit) == \A k \in 1..4 : s[i + k - 1] = lit[k]

\* if (bUseDouble) { ... } once StringToDouble has returned r: the kind
\* is set to Double before the conversion is validated.  a is the start of
\* the token, p the cursor.
ParseDoubleEnd(s, a, p, r) ==
    IF r.processed <= 0 THEN Ret("bad_double", p, MkDouble(r.value))
    ELSE IF a + r.processed < Len(s) + 1 /\ s[a + r.processed] \in {101, 69}
    THEN Ret("bad_exponent", p, MkDouble(r.value))
    ELSE Ret("success", a + r.processed, MkDouble(r.value))

ParseDouble(s, a, p, json) == ParseDoubleEnd(s, a, p, StringToDouble(s, a))

\* One turn of the digit loop of case '1'..'9', for (...; p < e; ++p), on
\* the loop state st: st.p is the cursor, st.x the long long built so far.
\* st.kind tells how the loop was left: "long" at the end of the digits,
\* "double" by goto UseDubble, "bad_double" by the return.
IntegerLoopStep(s, d, st) ==
    IF st.p >= Len(s) + 1 THEN [st EXCEPT !.done = TRUE]
    ELSE
    LET c == s[st.p] IN
    IF isdigit(c) THEN
        LET m == ckd_mul10(st.x)
            r == ckd_add_digit(m.x, c - 48, d)
        IN  IF m.ovf \/ r.ovf THEN [st EXCEPT !.done = TRUE, !.kind = "double"]
            ELSE [st EXCEPT !.p = @ + 1, !.x = r.x]
    ELSE IF c = 46 THEN
        IF st.p + 1 = Len(s) + 1 \/ ~isdigit(s[st.p + 1])
        THEN [st EXCEPT !.done = TRUE, !.kind = "bad_double"]
        ELSE [st EXCEPT !.done = TRUE, !.kind = "double"]
    ELSE IF c \in {101, 69} THEN [st EXCEPT !.done = TRUE, !.kind = "double"]
    ELSE [st EXCEPT !.done = TRUE]

\* The whole digit loop
IntegerLoop(s, p, x, d) ==
    Iterate(LAMBDA st : IntegerLoopStep(s, d, st), IterateLog,
            [done |-> FALSE, kind |-> "long", p |-> p, x |-> x])

\* case '0'; p is the cursor after the zero
ParseZero(s, a, p, json) ==
    LET e == Len(s) + 1 IN
    IF p < e /\ s[p] = 46
    THEN IF p + 1 = e \/ ~isdigit(s[p + 1]) THEN Ret("bad_double", p, json)
         ELSE ParseDouble(s, a, p, json)
    ELSE IF p < e /\ s[p] \in {101, 69} THEN ParseDouble(s, a, p, json)
    ELSE IF p < e /\ isdigit(s[p]) THEN Ret("unexpected_octal", p, json)
    ELSE Ret("success", p, MkLong(LongZero))

\* ParseIntegerEnd without the promotion: after an overflow the accumulator
\* is stored as a Long
ParseIntegerEnd_NoPromotion(s, a, r, json) ==
    IF r.kind = "bad_double" THEN Ret("bad_double", r.p, json)
    ELSE Ret("success", r.p, MkLong(r.x))

\* case '1'..'9'; c is the first digit, p the cursor after it
ParseIntegerEnd(s, a, r, json) ==
    IF r.kind = "bad_double" THEN Ret("bad_double", r.p, json)
    ELSE IF r.kind = "double" THEN ParseDouble(s, a, r.p, json)
    ELSE Ret("success", r.p, MkLong(r.x))

ParseInteger(s, a, p, c, d, json) ==
    ParseIntegerEnd(s, a, IntegerLoop(s, p, [neg |-> d = -1, mag |-> <<c - 48>>], d),
                    json)

\* case '"': the buffer b becomes the payload when the closing quote is met
ParseStringEnd(r, json) ==
    Ret(r.status, r.p, IF r.closed THEN MkString(r.b) ELSE json)

ParseString(s, p, json) == ParseStringEnd(StringLoop(s, p, <<>>), json)

(* The recursion of Json::parse is kept as an explicit call stack.  The   *)
(* state of the parser is a record m:                                      *)
(*   mode     "scan" inside the for/switch of the innermost call,          *)
(*            "ret" when that call has just returned m.status              *)
(*   p, a, d, context, depth, json   the innermost call's variables; json  *)
(*            is the Json it was handed by reference                       *)
(*   stack    one frame per suspended caller, innermost last: kind tells   *)
(*            which call of case '[' or '{' is pending ("array", "key",    *)
(*            "value"), json is the caller's container, key the key just   *)
(*            parsed, value the state of the caller's local value, depth   *)
(*            the caller's depth                                           *)

Frame(kind, json, key, value, depth) ==
    [kind |-> kind, json |-> json, key |-> key, value |-> value, depth |-> depth]

\* return status: the innermost call ends with cursor p and its Json as json
ParseRet(m, status, p, json) ==
    [m EXCEPT !.mode = "ret", !.status = status, !.p = p, !.json = json]

\* ParseCall with the depth test one call late: if (depth < 0) in place of
\* if (!depth)
ParseCall_LateDepthCheck(m, f, p, context, depth, json) ==
    [m EXCEPT !.stack = Append(@, f),
              !.mode = IF depth < 0 THEN "ret" ELSE "scan",
              !.status = IF depth < 0 THEN "depth_exceeded" ELSE "success",
              !.p = p, !.a = p, !.d = 1,
              !.context = context, !.depth = depth, !.json = json]

\* ParseCall reporting an exhausted depth as stack_overflow
ParseCall_StackOverflow(m, f, p, context, depth, json) ==
    [m EXCEPT !.stack = Append(@, f),
              !.mode = IF depth = 0 THEN "ret" ELSE "scan",
              !.status = IF depth = 0 THEN "stack_overflow" ELSE "success",
              !.p = p, !.a = p, !.d = 1,
              !.context = context, !.depth = depth, !.json = json]

\* parse(ctx, json, p, e, context, depth) entered from the caller whose
\* frame is f: if (!depth) return depth_exceeded; for (a = p, d = +1; ...
ParseCall(m, f, p, context, depth, json) ==
    [m EXCEPT !.stack = Append(@, f),
              !.mode = IF depth = 0 THEN "ret" ELSE "scan",
              !.status = IF depth = 0 THEN "depth_exceeded" ELSE "success",
              !.p = p, !.a = p, !.d = 1,
              !.context = context, !.depth = depth, !.json = json]

\* A token function's result r taken as the return of the innermost call
ParseRetOf(m, r) == ParseRet(m, r.status, r.p, r.json)

\* ParseComma without context = 0: the comma is accepted and the context
\* stays as it was
ParseComma_KeepsContext(m, q) ==
    IF Has(m.context, COMMA) THEN [m EXCEPT !.p = q, !.a = q]
    ELSE ParseRet(m, "unexpected_comma", q, m.json)

\* ParseComma leaving the cursor on the comma it accepts
ParseComma_StaysPut(m, q) ==
    IF Has(m.context, COMMA) THEN [m EXCEPT !.context = 0]
    ELSE ParseRet(m, "unexpected_comma", q, m.json)

\* case ',': the byte before q is a comma
ParseComma(m, q) ==
    IF Has(m.context, COMMA) THEN [m EXCEPT !.p = q, !.a = q, !.context = 0]
    ELSE ParseRet(m, "unexpected_comma", q, m.json)

\* One turn of for (...; p < e;) switch ((c = *p++ & 255)), and the three
\* lines after the loop
ParseScan(s, m) ==
    LET e == Len(s) + 1
        p == m.p
        context == m.context
        json == m.json
    IN
    IF p >= e
    THEN ParseRet(m, IF m.depth = DEPTH THEN "absent_value" ELSE "unexpected_eof",
                  p, json)
    ELSE
    LET c == s[p]
        q == p + 1
        blocked == Has(context, KEY) \/ Has(context, COLON) \/ Has(context, COMMA)
    IN  CASE IsJsonSpace(c) -> [m EXCEPT !.p = q, !.a = q]
          [] c = 44 -> ParseComma(m, q)
          [] c = 58 ->
            IF Has(context, COLON) THEN [m EXCEPT !.p = q, !.a = q, !.context = 0]
            ELSE ParseRet(m, "unexpected_colon", q, json)
          [] c = 110 ->
            IF blocked THEN ParseRet(m, ReturnColonCommaKeyErrorStatus(context), q, json)
            ELSE IF q + 3 <= e /\ Read32Is(s, q - 1, <<110, 117, 108, 108>>)
            THEN ParseRet(m, "success", q + 3, json)
            ELSE ParseRet(m, "illegal_character", q, json)
          [] c = 102 ->
            IF blocked THEN ParseRet(m, ReturnColonCommaKeyErrorStatus(context), q, json)
            ELSE IF q + 4 <= e /\ Read32Is(s, q, <<97, 108, 115, 101>>)
            THEN ParseRet(m, "success", q + 4, MkBool(FALSE))
            ELSE ParseRet(m, "illegal_character", q, json)
          [] c = 116 ->
            IF blocked THEN ParseRet(m, ReturnColonCommaKeyErrorStatus(context), q, json)
            ELSE IF q + 3 <= e /\ Read32Is(s, q - 1, <<116, 114, 117, 101>>)
            THEN ParseRet(m, "success", q + 3, MkBool(TRUE))
            ELSE ParseRet(m, "illegal_character", q, json)
          [] c = 45 ->
            IF blocked THEN ParseRet(m, ReturnColonCommaKeyErrorStatus(context), q, json)
            ELSE IF q < e /\ isdigit(s[q]) THEN [m EXCEPT !.p = q, !.d = -1]
            ELSE ParseRet(m, "bad_negative", q, json)
          [] c = 48 ->
            IF blocked THEN ParseRet(m, ReturnColonCommaKeyErrorStatus(context), q, json)
            ELSE ParseRetOf(m, ParseZero(s, m.a, q, json))
          [] c >= 49 /\ c <= 57 ->
            IF blocked THEN ParseRet(m, ReturnColonCommaKeyErrorStatus(context), q, json)
            ELSE ParseRetOf(m, ParseInteger(s, m.a, q, c, m.d, json))
          [] c = 91 ->
            IF blocked THEN ParseRet(m, ReturnColonCommaKeyErrorStatus(context), q, json)
            ELSE ParseCall(m, Frame("array", EmptyArray, <<>>, Null, m.depth),
                           q, ARRAY, m.depth - 1, Null)
          [] c = 93 ->
            IF Has(context, ARRAY) THEN ParseRet(m, "absent_value", q, json)
            ELSE ParseRet(m, "unexpected_end_of_array", q, json)
          [] c = 125 ->
            IF Has(context, OBJECT) THEN ParseRet(m, "absent_value", q, json)
            ELSE ParseRet(m, "unexpected_end_of_object", q, json)
          [] c = 123 ->
            IF blocked THEN ParseRet(m, ReturnColonCommaKeyErrorStatus(context), q, json)
            ELSE ParseCall(m, Frame("key", EmptyObject, <<>>, Null, m.depth),
                           q, KEY + OBJECT, m.depth - 1, Null)
          [] c = 34 ->
            IF Has(context, COLON) \/ Has(context, COMMA)
            THEN ParseRet(m, ReturnColonCommaErrorStatus(context), q, json)
            ELSE ParseRetOf(m, ParseString(s, q, json))
          [] OTHER -> ParseRet(m, "illegal_character", q, json)

\* The code after a recursive call that returned m.status: the caller's
\* frame f is resumed.  em tells whether the standard library's map::emplace
\* moves from its arguments when the key is already present; a moved-from
\* Json is Null.
ParseResume(em, m) ==
    LET f == m.stack[Len(m.stack)]
        up == [m EXCEPT !.stack = SubSeq(@, 1, Len(@) - 1), !.depth = f.depth]
        status == m.status
    IN  CASE f.kind = "array" ->
            \* for (context = ARRAY, i = 0;;) of case '['
            IF status = "absent_value" THEN ParseRet(up, "success", m.p, f.json)
            ELSE IF status # "success" THEN ParseRet(up, status, m.p, f.json)
            ELSE ParseCall(up, [f EXCEPT !.json.array_value = Append(@, m.json)],
                           m.p, ARRAY + COMMA, f.depth - 1, Null)
          [] f.kind = "key" ->
            \* for (;;) of case '{', after parse(ctx, key, ...)
            IF status = "absent_value" THEN ParseRet(up, "success", m.p, f.json)
            ELSE IF status # "success" THEN ParseRet(up, status, m.p, f.json)
            ELSE IF m.json.type # "String"
            THEN ParseRet(up, "object_key_must_be_string", m.p, f.json)
            ELSE ParseCall(up, [f EXCEPT !.kind = "value", !.key = m.json.string_value_],
                           m.p, COLON, f.depth - 1, f.value)
          [] OTHER ->
            \* for (;;) of case '{', after parse(ctx, value, ...)
            IF status = "absent_value"
            THEN ParseRet(up, "object_missing_value", m.p, f.json)
            ELSE IF status # "success" THEN ParseRet(up, status, m.p, f.json)
            ELSE ParseCall(up,
                           Frame("key", [f.json EXCEPT !.object_value = MapEmplace(@, f.key, m.json)],
                                 <<>>,
                                 IF MapContains(f.json.object_value, f.key) /\ ~em
                                 THEN m.json ELSE Null,
                                 f.depth),
                           m.p, KEY + COMMA + OBJECT, f.depth - 1, Null)

\* One step of the parser: a turn of the innermost call's loop, or the
\* return of the innermost call to its caller
ParseStep(em, s, m) ==
    IF m.mode = "scan" THEN ParseScan(s, m)
    ELSE IF m.stack = <<>> THEN [m EXCEPT !.done = TRUE]
    ELSE ParseResume(em, m)

\* Json::parse(ctx, json, p, e, context, depth): the status returned, the
\* cursor and the Json left in json
ParseEnd(m) == Ret(m.status, m.p, m.json)

Parse(em, s, p, context, depth, json) ==
    ParseEnd(Iterate(LAMBDA st : ParseStep(em, s, st), IterateLog,
                     [done |-> FALSE,
                      mode |-> IF depth = 0 THEN "ret" ELSE "scan",
                      status |-> IF depth = 0 THEN "depth_exceeded" ELSE "success",
                      p |-> p, a |-> p, d |-> 1, context |-> context,
                      depth |-> depth, json |-> json, stack |-> <<>>]))

\* if (res.first == success) { ... } of the public parse, r being what the
\* first call returned
PublicParseSecond(em, s, r) ==
    IF r.status = "success"
    THEN [status |-> IF Parse(em, s, r.p, 0, DEPTH, Null).status # "absent_value"
                     THEN "trailing_content" ELSE "success",
          value |-> r.json]
    ELSE [status |-> r.status, value |-> r.json]

\* PublicParse with the first call given one level more than DEPTH
PublicParse_DeeperStart(em, s) ==
    PublicParseSecond(em, s, Parse(em, s, 1, 0, DEPTH + 1, Null))

\* Json::parse(ctx, s, len), src/json.cpp:1419-1434: the pair returned
PublicParse(em, s) == PublicParseSecond(em, s, Parse(em, s, 1, 0, DEPTH, Null))

---------------------------------------------------------------------------
(* Serializer, src/json.cpp:703-882 *)

\* c_str() read up to strlen: the bytes before the first NUL
RECURSIVE CStr(_)
CStr(b) == IF b = <<>> \/ Head(b) = 0 THEN <<>> ELSE <<Head(b)>> \o CStr(Tail(b))

kEscapeLiteral_EqualsPlain(x) ==
    IF x = 9 THEN 1
    ELSE IF x = 10 THEN 2
    ELSE IF x = 13 THEN 3
    ELSE IF x = 12 THEN 4
    ELSE IF x = 92 THEN 5
    ELSE IF x = 47 THEN 6
    ELSE IF x = 34 THEN 7
    ELSE IF x < 32 \/ x \in {38, 39, 60, 62, 127} THEN 9
    ELSE 0

kEscapeLiteral_SlashPlain(x) ==
    IF x = 9 THEN 1
    ELSE IF x = 10 THEN 2
    ELSE IF x = 13 THEN 3
    ELSE IF x = 12 THEN 4
    ELSE IF x = 92 THEN 5
    ELSE IF x = 34 THEN 7
    ELSE IF x < 32 \/ x \in {38, 39, 60, 61, 62, 127} THEN 9
    ELSE 0

\* kEscapeLiteral[x] for 0 <= x <= 127
kEscapeLiteral(x) ==
    IF x = 9 THEN 1
    ELSE IF x = 10 THEN 2
    ELSE IF x = 13 THEN 3
    ELSE IF x = 12 THEN 4
    ELSE IF x = 92 THEN 5
    ELSE IF x = 47 THEN 6
    ELSE IF x = 34 THEN 7
    ELSE IF x < 32 \/ x \in {38, 39, 60, 61, 62, 127} THEN 9
    ELSE 0

\* ThomPikeMsb(x) for a byte x >= 0300
ThomPikeMsb(x) ==
    IF x < \o340 THEN 5 ELSE IF x < \o360 THEN 4 ELSE IF x < \o370 THEN 3
    ELSE IF x < \o374 THEN 2 ELSE 1

ThomPikeLen(x) == 7 - ThomPikeMsb(x)

\* x & (((1 << ThomPikeMsb(x)) - 1) | 3)
ThomPikeByte(x) == IF x < \o340 THEN x % 32 ELSE IF x < \o360 THEN x % 16
                   ELSE IF x < \o370 THEN x % 8 ELSE x % 4

\* (x << 6 | (077 & y)) in the 32 bits of wint_t; a result of 2^31 or more
\* is kept as 2^30, which EncodeUtf16 treats alike (above 0x10FFFF)
ThomPikeMerge(x, y) == IF x >= 33554432 THEN 1073741824 ELSE x * 64 + (y % 64)

\* The inner for (j = 0;;) of serialize: [ok, x] after merging m
\* continuation bytes that start at inp[i]
RECURSIVE SerializeMerge(_, _, _, _, _)
SerializeMerge(inp, i, j, m, a) ==
    IF ~ThomPikeCont(inp[i + j]) THEN [ok |-> FALSE, x |-> a]
    ELSE IF j + 1 = m THEN [ok |-> TRUE, x |-> ThomPikeMerge(a, inp[i + j])]
    ELSE SerializeMerge(inp, i, j + 1, m, ThomPikeMerge(a, inp[i + j]))

HexDigit(n) == IF n < 10 THEN 48 + n ELSE 87 + n

\* "\\uXXXX" for the 16 bits w
Escape16(w) ==
    <<92, 117, HexDigit((w \div 4096) % 16), HexDigit((w \div 256) % 16),
      HexDigit((w \div 16) % 16), HexDigit(w % 16)>>

\* case 9 of serialize: EncodeUtf16(x), emitted 16 bits at a time, low first
EscapeUtf16(x) ==
    IF x <= \hFFFF THEN Escape16(x)
    ELSE IF x <= \h10FFFF
    THEN Escape16(((x - \h10000) \div 1024) + \hD800)
         \o Escape16(((x - \h10000) % 1024) + \hDC00)
    ELSE Escape16(\hFFFD)

SerializeOne_RawAboveAscii(x) ==
    IF x > 127 /\ x < 256 THEN <<x>>
    ELSE IF x > 127 THEN EscapeUtf16(x)
    ELSE LET k == kEscapeLiteral(x)
         IN  IF k = 0 THEN <<x>>
             ELSE IF k = 1 THEN <<92, 116>>
             ELSE IF k = 2 THEN <<92, 110>>
             ELSE IF k = 3 THEN <<92, 114>>
             ELSE IF k = 4 THEN <<92, 102>>
             ELSE IF k = 5 THEN <<92, 92>>
             ELSE IF k = 6 THEN <<92, 47>>
             ELSE IF k = 7 THEN <<92, 34>>
             ELSE EscapeUtf16(x)

\* The text appended for the code point (or byte) x
SerializeOne(x) ==
    LET k == IF 0 <= x /\ x <= 127 THEN kEscapeLiteral(x) ELSE 9
    IN  IF k = 0 THEN <<x>>
        ELSE IF k = 1 THEN <<92, 116>>
        ELSE IF k = 2 THEN <<92, 110>>
        ELSE IF k = 3 THEN <<92, 114>>
        ELSE IF k = 4 THEN <<92, 102>>
        ELSE IF k = 5 THEN <<92, 92>>
        ELSE IF k = 6 THEN <<92, 47>>
        ELSE IF k = 7 THEN <<92, 34>>
        ELSE EscapeUtf16(x)

\* for (i = 0; i < len;) of serialize, on the bytes inp (no NUL), from
\* the 1-based index i
RECURSIVE SerializeLoop(_, _)
SerializeLoop(inp, i) ==
    IF i > Len(inp) THEN <<>>
    ELSE
    LET x == inp[i]
        m == ThomPikeLen(x) - 1
        r == IF x >= \o300 /\ i + m <= Len(inp)
             THEN SerializeMerge(inp, i + 1, 0, m, ThomPikeByte(x))
             ELSE [ok |-> FALSE, x |-> x]
    IN  IF r.ok THEN SerializeOne(r.x) \o SerializeLoop(inp, i + 1 + m)
        ELSE SerializeOne(x) \o SerializeLoop(inp, i + 1)

\* Json::serialize(sb, input): input is a C string
Serialize(b) == SerializeLoop(CStr(b), 1)

\* Json::stringify
Stringify(b) == <<34>> \o Serialize(b) \o <<34>>

\* The indent written as one tab per level
Indent_Tabs(n) == [k \in 1..n |-> 9]

RECURSIVE Indent(_)
Indent(n) == IF n <= 0 THEN <<>> ELSE <<32, 32>> \o Indent(n - 1)

(* Json::marshal calls itself on the elements of an array and the values  *)
(* of an object.  The calls are kept as a list of pending pieces of output, *)
(* in the order the code appends them: a piece is the literal text pre,    *)
(* followed, when isval, by the marshalling of the value j at the given    *)
(* indent.                                                                 *)

Piece(pre, isval, j, indent) ==
    [pre |-> pre, isval |-> isval, j |-> j, indent |-> indent]

\* The pieces of case Array after the '[': each element, preceded from the
\* second on by ',' and, when pretty, ' '
MarshalArray(a, pretty, indent) ==
    [i \in 1..Len(a) |->
        Piece(IF i > 1 THEN <<44>> \o (IF pretty THEN <<32>> ELSE <<>>) ELSE <<>>,
              TRUE, a[i], indent)]

\* The pieces of case Object after the '{': ++indent before an entry of an
\* object of more than one entry, --indent after it
MarshalObject_BreaksSingleEntry(m, pretty, indent) ==
    LET multi == pretty /\ Len(m) >= 1
        ind == IF multi THEN indent + 1 ELSE indent
    IN  [i \in 1..Len(m) |->
            Piece((IF i > 1 THEN <<44>> ELSE <<>>)
                  \o (IF multi THEN <<10>> \o Indent(ind) ELSE <<>>)
                  \o Stringify(m[i].k)
                  \o <<58>>
                  \o (IF pretty THEN <<32>> ELSE <<>>),
                  TRUE, m[i].v, ind)]

MarshalObject(m, pretty, indent) ==
    LET multi == pretty /\ Len(m) > 1
        ind == IF multi THEN indent + 1 ELSE indent
    IN  [i \in 1..Len(m) |->
            Piece((IF i > 1 THEN <<44>> ELSE <<>>)
                  \o (IF multi THEN <<10>> \o Indent(ind) ELSE <<>>)
                  \o Stringify(m[i].k)
                  \o <<58>>
                  \o (IF pretty THEN <<32>> ELSE <<>>),
                  TRUE, m[i].v, ind)]

\* The text marshal appends for a value that is not a container
MarshalScalar(j) ==
    CASE j.type = "Null" -> <<110, 117, 108, 108>>
      [] j.type = "String" -> Stringify(j.string_value_)
      [] j.type = "Bool" ->
            IF j.bool_value THEN <<116, 114, 117, 101>> ELSE <<102, 97, 108, 115, 101>>
      [] j.type = "Long" -> LongToString(j.long_value)
      [] j.type = "Float" -> ConverterToShortestSingle(j.float_value)
      [] j.type = "Double" -> ConverterToShortest(j.double_value)

\* One piece is output: st.out is the text so far, st.todo the pieces left
MarshalStep(pretty, st) ==
    IF st.todo = <<>> THEN [st EXCEPT !.done = TRUE]
    ELSE
    LET t == Head(st.todo)
        rest == Tail(st.todo)
        j == t.j
    IN  IF ~t.isval THEN [st EXCEPT !.out = @ \o t.pre, !.todo = rest]
        ELSE IF j.type = "Array"
        THEN [st EXCEPT !.out = @ \o t.pre \o <<91>>,
                        !.todo = MarshalArray(j.array_value, pretty, t.indent)
                                 \o <<Piece(<<93>>, FALSE, Null, 0)>> \o rest]
        ELSE IF j.type = "Object"
        THEN [st EXCEPT !.out = @ \o t.pre \o <<123>>,
                        !.todo = MarshalObject(j.object_value, pretty, t.indent)
                                 \o <<Piece((IF pretty /\ Len(j.object_value) > 1
                                             THEN <<10>> \o Indent(t.indent)
                                             ELSE <<>>) \o <<125>>,
                                            FALSE, Null, 0)>>
                                 \o rest]
        ELSE [st EXCEPT !.out = @ \o t.pre \o MarshalScalar(j), !.todo = rest]

\* Json::marshal(b, pretty, indent): the bytes appended to b
Marshal(j, pretty, indent) ==
    Iterate(LAMBDA st : MarshalStep(pretty, st), IterateLog,
            [done |-> FALSE, out |-> <<>>,
             todo |-> <<Piece(<<>>, TRUE, j, indent)>>]).out

\* Json::toString and Json::toStringPretty
toString(j) == Marshal(j, FALSE, 0)

toStringPretty(j) == Marshal(j, TRUE, 0)

---------------------------------------------------------------------------
(* Building values through the public API, src/json.h:147-187 and          *)
(* src/json.cpp:303-355, 651-701                                           *)

\* Json(ctx, const char*): the string up to its terminator
JsonOfCString(b) == MkString(CStr(b))

\* Json(ctx, const std::string&): the string with its full length
JsonOfString(b) == MkString(b)

\* A selector of operator[] is an index or a key
Index(i) == [isIndex |-> TRUE, i |-> i, k |-> <<>>]

Key(k) == [isIndex |-> FALSE, i |-> 0, k |-> k]

\* The place of key k in the sorted map m
MapPos(m, k) == CHOOSE i \in DOMAIN m : m[i].k = k

\* The Json j after j[index]: made an Array when it is not one, grown by
\* one Null when index >= size.  valid tells whether array_value[index] is
\* an element of the vector then.
IndexRef(j, index) ==
    LET arr == IF j.type # "Array" THEN EmptyArray ELSE j
        grown == IF index >= Len(arr.array_value)
                 THEN [arr EXCEPT !.array_value = Append(@, Null)]
                 ELSE arr
    IN  [json |-> grown, valid |-> index < Len(grown.array_value)]

KeyRef_StartsAfresh(j, key) ==
    [EmptyObject EXCEPT !.object_value = MapEmplace(@, key, Null)]

\* The Json j after j[key]: made an Object when it is not one, the key
\* emplaced with a Null when absent
KeyRef(j, key) ==
    LET obj == IF j.type # "Object" THEN EmptyObject ELSE j
    IN  [obj EXCEPT !.object_value = MapEmplace(@, key, Null)]

\* j after  j[s1][s2]...[sn] = x  for the selectors path: [json, valid],
\* valid being FALSE when one operator[] returned array_value[index] with
\* index past the end; the calls made before it have had their effect
RECURSIVE Store(_, _, _)
Store(j, path, x) ==
    IF path = <<>> THEN [json |-> x, valid |-> TRUE]
    ELSE
    LET sel == Head(path) IN
    IF sel.isIndex
    THEN LET r == IndexRef(j, sel.i)
         IN  IF ~r.valid THEN r
             ELSE LET in == Store(r.json.array_value[sel.i + 1], Tail(path), x)
                  IN  [json |-> [r.json EXCEPT !.array_value[sel.i + 1] = in.json],
                       valid |-> in.valid]
    ELSE LET o == KeyRef(j, sel.k)
             n == MapPos(o.object_value, sel.k)
             in == Store(o.object_value[n].v, Tail(path), x)
         IN  [json |-> [o EXCEPT !.object_value[n].v = in.json], valid |-> in.valid]

---------------------------------------------------------------------------
(* Getters, src/json.cpp:555-649.  A getter gives [returned, ret]: whether *)
(* it came back rather than reaching abort(), and the value it returned,   *)
(* written as a Json of the kind of its return type.  The conversions      *)
(* between long long, float and double keep the decimal value, as          *)
(* everywhere in this model; the rounding of a long long above 2^53 and of *)
(* a double narrowed to float is not rendered.                             *)

Got(ret) == [returned |-> TRUE, ret |-> ret]

\* default: abort();
Aborts == [returned |-> FALSE, ret |-> Null]

\* (double) long_value
DoubleOfLong(x) == DecOf(x.neg, x.mag, Len(x.mag), 0)

getNumber(j) ==
    CASE j.type = "Long" -> Got(MkDouble(DoubleOfLong(j.long_value)))
      [] j.type = "Float" -> Got(MkDouble(j.float_value))
      [] j.type = "Double" -> Got(MkDouble(j.double_value))
      [] OTHER -> Aborts

getLong_AnyNumber(j) ==
    CASE j.type = "Long" -> Got(MkLong(j.long_value))
      [] j.type \in {"Float", "Double"} -> Got(MkLong(LongZero))
      [] OTHER -> Aborts

getLong(j) ==
    CASE j.type = "Long" -> Got(MkLong(j.long_value))
      [] OTHER -> Aborts

getBool(j) ==
    CASE j.type = "Bool" -> Got(MkBool(j.bool_value))
      [] OTHER -> Aborts

getFloat(j) ==
    CASE j.type = "Float" -> Got(MkFloat(j.float_value))
      [] j.type = "Double" -> Got(MkFloat(j.double_value))
      [] OTHER -> Aborts

getDouble(j) ==
    CASE j.type = "Float" -> Got(MkDouble(j.float_value))
      [] j.type = "Double" -> Got(MkDouble(j.double_value))
      [] OTHER -> Aborts

getString(j) ==
    CASE j.type = "String" -> Got(MkString(j.string_value_))
      [] OTHER -> Aborts

getArray(j) ==
    CASE j.type = "Array" -> Got([type |-> "Array", array_value |-> j.array_value])
      [] OTHER -> Aborts

getObject(j) ==
    CASE j.type = "Object" -> Got([type |-> "Object", object_value |-> j.object_value])
      [] OTHER -> Aborts

---------------------------------------------------------------------------
(* Bounds of the model, and the texts and values the calling program is    *)
(* given.  A text is written as its bytes; the comment above a set spells  *)
(* the bytes out.                                                          *)

MaxTextTokens == 3
MaxTokens == 5
MaxNest == 21
MaxBody == 3
MaxEscapes == 3
MaxEntries == 3
MaxElems == 2
MaxOps == 2
MaxPath == 2

\* The sequences of at most n members of T
SeqsUpTo(T, n) == UNION {[1..k -> T] : k \in 0..n}

\* The members of ts from the i-th on, one after the other
RECURSIVE FlattenFrom(_, _)
FlattenFrom(ts, i) == IF i > Len(ts) THEN <<>> ELSE ts[i] \o FlattenFrom(ts, i + 1)

Flatten(ts) == FlattenFrom(ts, 1)

\* The members of ts separated by sep
Join(ts, sep) == Flatten([i \in DOMAIN ts |-> IF i > 1 THEN sep \o ts[i] ELSE ts[i]])

RECURSIVE Rep(_, _)
Rep(b, n) == IF n <= 0 THEN <<>> ELSE b \o Rep(b, n - 1)

\* 1  1.5  1e  "a"  null  [  ]  {  }  ,  :  space  VT  x  -  0
TextTokens ==
    {<<49>>, <<49, 46, 53>>, <<49, 101>>, <<34, 97, 34>>,
     <<110, 117, 108, 108>>, <<91>>, <<93>>, <<123>>, <<125>>, <<44>>,
     <<58>>, <<32>>, <<11>>, <<120>>, <<45>>, <<48>>}

\* Any text of at most n tokens, written one after the other
TextInputs(n) == {Flatten(ts) : ts \in SeqsUpTo(TextTokens, n)}

\* [  ]  {  }  ,  :  "k"  1
GrammarTokens ==
    {<<91>>, <<93>>, <<123>>, <<125>>, <<44>>, <<58>>, <<34, 107, 34>>,
     <<49>>}

\* Any sequence of at most n structural tokens, strings and
\* scalars, the tokens separated by one space
GrammarInputs(n) == {Join(ts, <<32>>) : ts \in SeqsUpTo(GrammarTokens, n)}

\* The opening of the i-th container from the outside: arrays, objects
\* with the key "k", or one after the other
NestOpen(kind, i) ==
    IF kind = "array" \/ (kind = "mixed" /\ i % 2 = 1) THEN <<91>>
    ELSE <<123, 34, 107, 34, 58>>

NestClose(kind, i) ==
    IF kind = "array" \/ (kind = "mixed" /\ i % 2 = 1) THEN <<93>> ELSE <<125>>

\* n containers one inside the other.  With scalar the innermost holds
\* the scalar 1, and n = 0 is the scalar alone; without, the innermost
\* container is empty.
Nest(kind, n, scalar) ==
    IF scalar
    THEN Flatten([i \in 1..n |-> NestOpen(kind, i)]) \o <<49>>
         \o Flatten([i \in 1..n |-> NestClose(kind, n + 1 - i)])
    ELSE Flatten([i \in 1..(n - 1) |-> NestOpen(kind, i)])
         \o (IF NestClose(kind, n) = <<93>> THEN <<91, 93>> ELSE <<123, 125>>)
         \o Flatten([i \in 1..(n - 1) |-> NestClose(kind, n - i)])

NestKinds == {"array", "object", "mixed"}

\* Nestings of at most max containers
NestInputs(max) ==
    {Nest(kind, n, TRUE) : kind \in NestKinds, n \in 0..max}
    \cup {Nest(kind, n, FALSE) : kind \in NestKinds, n \in 1..max}

\* A, the continuation bytes 80 90 A0, the lead bytes C0 C2 E0 ED F0 F4 F5
Utf8Bytes ==
    {<<65>>, <<128>>, <<144>>, <<160>>, <<192>>, <<194>>, <<224>>, <<237>>,
     <<240>>, <<244>>, <<245>>}

\* \u0000  \u00e9  \u20AC  \uD834  \uDD1E  \uDBFF  A
EscapeTokens ==
    {<<92, 117, 48, 48, 48, 48>>, <<92, 117, 48, 48, 101, 57>>,
     <<92, 117, 50, 48, 65, 67>>, <<92, 117, 68, 56, 51, 52>>,
     <<92, 117, 68, 68, 49, 69>>, <<92, 117, 68, 66, 70, 70>>, <<65>>}

\* The bodies of string literals: raw bytes, or escapes
RawBodies(n) == {Flatten(ts) : ts \in SeqsUpTo(Utf8Bytes, n)}

EscapeBodies(n) == {Flatten(ts) : ts \in SeqsUpTo(EscapeTokens, n)}

\* Bodies around the CESU-8 branch of case UTF8_3_ED: ED x 80 ED y 80 with
\* x in A0 AE BF C2 DF and y in B0 BF C2, alone or followed by A or C2 80
CesuBodies ==
    {<<237, x, 128, 237, y, 128>> \o tail :
        x \in {160, 174, 191, 194, 223}, y \in {176, 191, 194},
        tail \in {<<>>, <<65>>, <<194, 128>>}}

\* The four-byte forms: a lead byte F0, F4 or F5, then 80, 90, A0 or A, then
\* 80 80, alone or followed by A
FourByteBodies ==
    {<<lead, second, 128, 128>> \o tail :
        lead \in {240, 244, 245}, second \in {128, 144, 160, 65},
        tail \in {<<>>, <<65>>}}

\* "body"  and  {"body":1}
StringText(body) == <<34>> \o body \o <<34>>

KeyText(body) == <<123, 34>> \o body \o <<34, 58, 49, 125>>

\* String literals of at most n raw bytes or m escapes, and keys of one
\* raw byte less; the CESU-8 bodies and the four-byte forms in both places
Utf8Inputs(n, m) ==
    {StringText(b) :
        b \in RawBodies(n) \cup EscapeBodies(m) \cup CesuBodies \cup FourByteBodies}
    \cup {KeyText(b) :
              b \in RawBodies(n - 1) \cup EscapeBodies(m) \cup CesuBodies
                    \cup FourByteBodies}

\* The key texts  "a"  "\u0061"  "b" : the first two spell the key a
EntryKeys ==
    {<<34, 97, 34>>, <<34, 92, 117, 48, 48, 54, 49, 34>>, <<34, 98, 34>>}

\* The value texts  1  2  null  "x"
EntryValues ==
    {<<49>>, <<50>>, <<110, 117, 108, 108>>, <<34, 120, 34>>}

\* { entry , entry ... } of at most n entries key:value
ObjectInputs(n) ==
    {<<123>> \o Join([i \in DOMAIN es |-> es[i][1] \o <<58>> \o es[i][2]], <<44>>)
        \o <<125>> :
        es \in SeqsUpTo(EntryKeys \X EntryValues, n)}

MaxPrettyDepth == 2

\* The arrays of no, one and two members of d, and the objects of no entry,
\* of the entry "a" and of the entries "a" and "b c", with values of d
ContainersOver(d) ==
    {<<91, 93>>, <<123, 125>>}
    \cup {<<91>> \o x \o <<93>> : x \in d}
    \cup {<<91>> \o x \o <<44>> \o y \o <<93>> : x \in d, y \in d}
    \cup {<<123, 34, 97, 34, 58>> \o x \o <<125>> : x \in d}
    \cup {<<123, 34, 97, 34, 58>> \o x \o <<44, 34, 98, 32, 99, 34, 58>> \o y \o <<125>> :
              x \in d, y \in d}

\* The documents of at most n containers one inside the other, around the
\* scalar 1
RECURSIVE NestedDocs(_)
NestedDocs(n) ==
    IF n = 0 THEN {<<49>>}
    ELSE NestedDocs(n - 1) \cup ContainersOver(NestedDocs(n - 1))

MaxBytes == 2

\* NUL, a control code, A, DEL, continuation bytes 80 and BF, and the lead
\* bytes C0 C2 E0 ED F0 F4 F8 FC FF
ByteAlphabet == {0, 31, 65, 127, 128, 191, 192, 194, 224, 237, 240, 244, 248, 252, 255}

\* Well-formed sequences of two, three and four bytes: U+00E9, U+20AC,
\* U+D7FF, U+E000, U+10000, U+1D11E, U+10FFFF
WellFormedForms ==
    {<<195, 169>>, <<226, 130, 172>>, <<237, 159, 191>>, <<238, 128, 128>>,
     <<240, 144, 128, 128>>, <<240, 157, 132, 158>>, <<244, 143, 191, 191>>}

\* Malformed sequences: a surrogate, an overlong form, a value above
\* U+10FFFF, a sequence cut short, and sequences of five and six bytes
MalformedForms ==
    {<<237, 160, 128>>, <<224, 128, 128>>, <<244, 144, 128, 128>>,
     <<240, 144, 128>>, <<248, 136, 128, 128, 128>>,
     <<252, 132, 128, 128, 128, 128>>, <<255, 191, 191, 191, 191, 191>>}

\* The std::string values a program holds: at most n bytes of the
\* alphabet, and each form alone, after an A and before an A
ByteStrings(n) ==
    SeqsUpTo(ByteAlphabet, n)
    \cup {pre \o f \o post : pre \in {<<>>, <<65>>}, post \in {<<>>, <<65>>},
                             f \in WellFormedForms \cup MalformedForms}

MaxAsciiChars == 1

\* Each byte 20..7F as a string literal writes it: itself, and \" and \\ for
\* the double quote and the backslash
AsciiTokens ==
    {<<c>> : c \in (32..127) \ {34, 92}} \cup {<<92, 34>>, <<92, 92>>}

\* String literals of at most n such characters
AsciiInputs(n) == {StringText(Flatten(ts)) : ts \in SeqsUpTo(AsciiTokens, n)}

MaxShortcuts == 2

\* \"  \\  \/  \b  \f  \n  \r  \t  /  A
ShortcutTokens ==
    {<<92, 34>>, <<92, 92>>, <<92, 47>>, <<92, 98>>, <<92, 102>>, <<92, 110>>,
     <<92, 114>>, <<92, 116>>, <<47>>, <<65>>}

\* String literals of at most n characters, each an escape shortcut, a
\* slash or an A
ShortcutInputs(n) == {StringText(Flatten(ts)) : ts \in SeqsUpTo(ShortcutTokens, n)}

\* null true false 0 -1 1.0 -2.5e-3 1e21 1E+2 "a" "" "\u00e9\n" "\ud834\udd1e" "a\u0000b" "\b\/<" and "e-acute" in UTF-8
ScalarTexts ==
    {<<110, 117, 108, 108>>, <<116, 114, 117, 101>>,
     <<102, 97, 108, 115, 101>>, <<48>>, <<45, 49>>, <<49, 46, 48>>,
     <<45, 50, 46, 53, 101, 45, 51>>, <<49, 101, 50, 49>>,
     <<49, 69, 43, 50>>, <<34, 97, 34>>, <<34, 34>>,
     <<34, 92, 117, 48, 48, 101, 57, 92, 110, 34>>,
     <<34, 92, 117, 100, 56, 51, 52, 92, 117, 100, 100, 49, 101, 34>>,
     <<34, 97, 92, 117, 48, 48, 48, 48, 98, 34>>,
     <<34, 92, 98, 92, 47, 60, 34>>, <<34, 195, 169, 34>>}

\* The key texts  "a"  "b"  "k\u0000z"
MemberKeys ==
    {<<34, 97, 34>>, <<34, 98, 34>>,
     <<34, 107, 92, 117, 48, 48, 48, 48, 122, 34>>}

\* Well-formed documents: a scalar, an array of at most n scalars, an
\* object of at most n entries, and each of them inside an array and
\* inside an object
FlatTexts(n) ==
    ScalarTexts
    \cup {<<91>> \o Join(es, <<44>>) \o <<93>> : es \in SeqsUpTo(ScalarTexts, n)}
    \cup {<<123>> \o Join([i \in DOMAIN es |-> es[i][1] \o <<58>> \o es[i][2]], <<44, 32>>)
             \o <<125>> :
             es \in SeqsUpTo(MemberKeys \X ScalarTexts, n)}

RoundInputs(n) ==
    FlatTexts(n)
    \cup {<<91, 32>> \o d \o <<44>> \o d \o <<32, 93>> : d \in FlatTexts(n)}
    \cup {<<123, 34, 107, 34, 58>> \o d \o <<125>> : d \in FlatTexts(n)}

---------------------------------------------------------------------------
(* The calling program.  It either parses a text, prints the value it got  *)
(* and parses the printed text again, or builds a value with the API,      *)
(* prints it and parses the printed text.                                  *)
(*   pc = "start"     a text is at hand, nothing has been called           *)
(*        "parsed"    Json::parse(input) has returned res, v is its value  *)
(*        "build"     v is being built with the API                        *)
(*        "printed"   text is v.toString()                                 *)
(*        "pretty"    text is v.toStringPretty()                           *)
(*        "reparsed"  Json::parse(text) has returned res2                  *)
(*        "crashed"   an operator[] went past the end of a vector and the  *)
(*                    process was killed                                   *)
(*        "accessed"  v[index], v[key] or a getter has returned            *)
(*        "aborted"   a getter has called abort()                          *)

\* No call of Json::parse made yet
NoResult == [status |-> "none", value |-> Null]

\* What the program keeps of a call  v[index],  v[key]  or  v.getX():  the
\* member called, its argument, v before the call, whether the call came
\* back (abort() was not reached), whether the element operator[] returned
\* a reference to is one of the vector, and the value returned by a getter
Call(op, index, key, before, returned, inBounds, ret) ==
    [op |-> op, index |-> index, key |-> key, before |-> before,
     returned |-> returned, inBounds |-> inBounds, ret |-> ret]

\* No allocation program run
NoMem == [vals |-> <<>>]

\* No such call made yet
NoCall == Call("none", 0, <<>>, Null, TRUE, TRUE, Null)

\* The values the constructors are called with: nullptr, bool, int, float,
\* double (1.5 and a NaN), const char* "a", std::string "a" NUL "b"
ScalarArgs ==
    <<Null, MkBool(TRUE), MkLong([neg |-> FALSE, mag |-> <<1>>]),
      MkFloat(MkDec("fin", FALSE, <<5>>, 0)), MkDouble(MkDec("fin", FALSE, <<1, 5>>, 1)),
      MkDouble(DecNaN), JsonOfCString(<<97, 0>>), JsonOfString(<<97, 0, 98>>)>>

\* The selectors operator[] is called with: indices 0 and 1, key "a"
Selectors == {Index(0), Index(1), Key(<<97>>)}

Paths(n) == SeqsUpTo(Selectors, n)

InitParse(inputs) ==
    /\ input \in inputs
    /\ emplaceMoves \in BOOLEAN
    /\ pc = "start"
    /\ res = NoResult
    /\ v = Null
    /\ text = <<>>
    /\ res2 = NoResult
    /\ nops = 0
    /\ call = NoCall
    /\ mem = NoMem

InitText == InitParse(TextInputs(MaxTextTokens))

InitRound == InitParse(RoundInputs(MaxElems))

InitDepth == InitParse(NestInputs(MaxNest))

InitGrammar == InitParse(GrammarInputs(MaxTokens))

InitUtf8 == InitParse(Utf8Inputs(MaxBody, MaxEscapes))

InitObject == InitParse(ObjectInputs(MaxEntries))

InitShortcut == InitParse(ShortcutInputs(MaxShortcuts))

InitPretty == InitParse(NestedDocs(MaxPrettyDepth))

InitAscii == InitParse(AsciiInputs(MaxAsciiChars))

\* Json v(ctx): the program starts from a Null value
InitBuild ==
    /\ input = <<>>
    /\ emplaceMoves \in BOOLEAN
    /\ pc = "build"
    /\ res = NoResult
    /\ v = Null
    /\ text = <<>>
    /\ res2 = NoResult
    /\ nops = 0
    /\ call = NoCall
    /\ mem = NoMem

\* What a building statement stores: a constructed scalar, or the empty
\* Array of setArray and the empty Object of setObject
StoredArgs == ScalarArgs \o <<EmptyArray, EmptyObject>>

\* Json v(ctx); v[s1]...[sn] = x;  the value a program holds after one
\* building statement that stayed inside its vectors
InitAccess ==
    /\ input = <<>>
    /\ emplaceMoves \in BOOLEAN
    /\ pc = "build"
    /\ res = NoResult
    /\ \E path \in Paths(MaxPath), i \in DOMAIN StoredArgs :
          /\ Store(Null, path, StoredArgs[i]).valid
          /\ v = Store(Null, path, StoredArgs[i]).json
    /\ text = <<>>
    /\ res2 = NoResult
    /\ nops = 0
    /\ call = NoCall
    /\ mem = NoMem

\* Json v(ctx, s);  or  Json v(ctx); v[s] = Json(ctx, 1);  for a
\* std::string s
InitBytes ==
    /\ input = <<>>
    /\ emplaceMoves \in BOOLEAN
    /\ pc = "build"
    /\ res = NoResult
    /\ \E b \in ByteStrings(MaxBytes) :
          \/ v = JsonOfString(b)
          \/ v = Store(Null, <<Key(b)>>, MkLong([neg |-> FALSE, mag |-> <<1>>])).json
    /\ text = <<>>
    /\ res2 = NoResult
    /\ nops = 0
    /\ call = NoCall
    /\ mem = NoMem

\* auto [status, json] = Json::parse(ctx, input, len)
DoParse ==
    /\ pc = "start"
    /\ res' = PublicParse(emplaceMoves, input)
    /\ v' = res'.value
    /\ pc' = "parsed"
    /\ UNCHANGED <<input, emplaceMoves, text, res2, nops, call, mem>>

\* text = v.toString(), on a value parse returned with success or on a
\* value built with the API
DoToString ==
    /\ \/ pc = "parsed" /\ res.status = "success"
       \/ pc = "build"
    /\ text' = toString(v)
    /\ pc' = "printed"
    /\ UNCHANGED <<input, emplaceMoves, res, v, res2, nops, call, mem>>

\* text = v.toStringPretty(), on a value parse returned with success
DoToStringPretty ==
    /\ pc = "parsed" /\ res.status = "success"
    /\ text' = toStringPretty(v)
    /\ pc' = "pretty"
    /\ UNCHANGED <<input, emplaceMoves, res, v, res2, nops, call, mem>>

\* Json::parse(ctx, text.data(), text.size())
DoReparse ==
    /\ pc = "printed"
    /\ res2' = PublicParse(emplaceMoves, text)
    /\ pc' = "reparsed"
    /\ UNCHANGED <<input, emplaceMoves, res, v, text, nops, call, mem>>

\* The effect on the program of one building statement  v[s1]...[sn] <op>
\* whose walk and store gave r.  When an operator[] indexed past the end of
\* its vector the behaviour is undefined: the store lands outside the tree,
\* or the process dies.
BuildWith(r) ==
    /\ v' = r.json
    /\ \/ pc' = "build"
       \/ ~r.valid /\ pc' = "crashed"
    /\ nops' = nops + 1
    /\ UNCHANGED <<input, emplaceMoves, res, text, res2, call, mem>>

\* v[s1]...[sn] = Json(ctx, x), for n >= 0
ApiAssign ==
    /\ pc = "build"
    /\ nops < MaxOps
    /\ \E path \in Paths(MaxPath), i \in DOMAIN ScalarArgs :
          BuildWith(Store(v, path, ScalarArgs[i]))

\* v[s1]...[sn].setArray()
ApiSetArray ==
    /\ pc = "build"
    /\ nops < MaxOps
    /\ \E path \in Paths(MaxPath) : BuildWith(Store(v, path, EmptyArray))

\* v[s1]...[sn].setObject()
ApiSetObject ==
    /\ pc = "build"
    /\ nops < MaxOps
    /\ \E path \in Paths(MaxPath) : BuildWith(Store(v, path, EmptyObject))

\* The indices and keys operator[] is called with on v alone
MaxIndex == 2

Indices == 0..MaxIndex

AccessKeys == {<<97>>, <<98>>}

\* The effect on the program of a call on v alone that left v as j and is
\* recorded as c.  An operator[] that indexed past the end of its vector
\* has returned a reference to no element: the program goes on with it, or
\* the process dies.
AccessWith(j, c) ==
    /\ v' = j
    /\ call' = c
    /\ \/ pc' = "accessed"
       \/ ~c.inBounds /\ pc' = "crashed"
    /\ UNCHANGED <<input, emplaceMoves, res, text, res2, nops, mem>>

\* Json& r = v[index]
ApiIndex ==
    /\ pc = "build"
    /\ \E index \in Indices :
          AccessWith(IndexRef(v, index).json,
                     Call("index", index, <<>>, v, TRUE, IndexRef(v, index).valid, Null))

\* Json& r = v[key]
ApiKey ==
    /\ pc = "build"
    /\ \E key \in AccessKeys :
          AccessWith(KeyRef(v, key), Call("key", 0, key, v, TRUE, TRUE, Null))

\* The getters, by name
Getters ==
    {"getNumber", "getLong", "getBool", "getFloat", "getDouble", "getString",
     "getArray", "getObject"}

Get(name, j) ==
    CASE name = "getNumber" -> getNumber(j)
      [] name = "getLong" -> getLong(j)
      [] name = "getBool" -> getBool(j)
      [] name = "getFloat" -> getFloat(j)
      [] name = "getDouble" -> getDouble(j)
      [] name = "getString" -> getString(j)
      [] name = "getArray" -> getArray(j)
      [] name = "getObject" -> getObject(j)

\* The effect on the program of the getter name that gave r: the value it
\* was called on is left alone, and abort() ends the process
GetWith(name, r) ==
    /\ call' = Call(name, 0, <<>>, v, r.returned, TRUE, r.ret)
    /\ pc' = IF r.returned THEN "accessed" ELSE "aborted"
    /\ UNCHANGED <<input, emplaceMoves, res, v, text, res2, nops, mem>>

\* auto x = v.getX()
ApiGet ==
    /\ pc = "build"
    /\ \E name \in Getters : GetWith(name, Get(name, v))

NextParse == DoParse \/ DoToString \/ DoReparse

NextBuild == ApiAssign \/ ApiSetArray \/ ApiSetObject \/ DoToString \/ DoReparse

NextPrint == DoToString \/ DoReparse

NextPretty == DoParse \/ DoToString \/ DoToStringPretty \/ DoReparse

NextAccess == ApiIndex \/ ApiKey \/ ApiGet \/ DoToString \/ DoReparse

SpecText == InitText /\ [][NextParse]_vars

SpecRound == InitRound /\ [][NextParse]_vars

SpecDepth == InitDepth /\ [][NextParse]_vars

SpecGrammar == InitGrammar /\ [][NextParse]_vars

SpecUtf8 == InitUtf8 /\ [][NextParse]_vars

SpecObject == InitObject /\ [][NextParse]_vars

SpecShortcut == InitShortcut /\ [][NextParse]_vars

SpecAscii == InitAscii /\ [][NextParse]_vars

SpecBuild == InitBuild /\ [][NextBuild]_vars

SpecAccess == InitAccess /\ [][NextAccess]_vars

SpecPretty == InitPretty /\ [][NextPretty]_vars

SpecBytes == InitBytes /\ [][NextPrint]_vars

---------------------------------------------------------------------------
(* Equality of values, as the specification understands it: same kinds,    *)
(* same string bytes and lengths, same array order, same key-to-value      *)
(* mapping, numbers equal as numbers whatever their kind and their text.   *)

IsNumber(j) == j.type \in {"Long", "Float", "Double"}

\* The number a Long, Float or Double stands for
NumberOf(j) ==
    CASE j.type = "Long" ->
            DecOf(j.long_value.neg, j.long_value.mag, Len(j.long_value.mag), 0)
      [] j.type = "Float" -> j.float_value
      [] j.type = "Double" -> j.double_value

RECURSIVE SameValue(_, _)
SameValue(a, b) ==
    IF IsNumber(a) /\ IsNumber(b) THEN NumberOf(a) = NumberOf(b)
    ELSE IF a.type # b.type THEN FALSE
    ELSE CASE a.type = "Array" ->
                /\ Len(a.array_value) = Len(b.array_value)
                /\ \A i \in DOMAIN a.array_value :
                      SameValue(a.array_value[i], b.array_value[i])
           [] a.type = "Object" ->
                /\ Len(a.object_value) = Len(b.object_value)
                /\ \A i \in DOMAIN a.object_value :
                      /\ a.object_value[i].k = b.object_value[i].k
                      /\ SameValue(a.object_value[i].v, b.object_value[i].v)
           [] OTHER -> a = b

---------------------------------------------------------------------------
(* C1 *)

\* C1: round trip from text.  Whenever parse succeeds on the input, parsing
\* the text toString gives for the parsed value succeeds too and gives an
\* equal value.
C1_RoundTripFromText ==
    (pc = "reparsed" /\ res.status = "success")
        => (res2.status = "success" /\ SameValue(res2.value, res.value))

\* The NUL case of C1: "a\u0000b" parses to the three bytes a, NUL, b;
\* toString prints "a"; the second parse gives the one byte a.
C1_NulTruncated ==
    /\ pc = "reparsed"
    /\ input = <<34, 97, 92, 117, 48, 48, 48, 48, 98, 34>>
    /\ res = [status |-> "success", value |-> MkString(<<97, 0, 98>>)]
    /\ text = <<34, 97, 34>>
    /\ res2 = [status |-> "success", value |-> MkString(<<97>>)]

---------------------------------------------------------------------------
(* C2 *)

\* C2: round trip from a built value.  For every value v built through the
\* constructors, operator[], setArray, setObject and assignment, parsing
\* v.toString() succeeds and gives a value equal to v.
C2_RoundTripFromValue ==
    (pc = "reparsed" /\ res.status = "none")
        => (res2.status = "success" /\ SameValue(res2.value, v))

\* The NUL case of C2: the value built from std::string("a\0b", 3) prints
\* as "a" and parses back as the one byte a.
C2_NulTruncated ==
    /\ pc = "reparsed"
    /\ res.status = "none"
    /\ v = MkString(<<97, 0, 98>>)
    /\ text = <<34, 97, 34>>
    /\ res2 = [status |-> "success", value |-> MkString(<<97>>)]

\* The NaN case of C2: the value built from a NaN double prints as null
C2_NaNPrintsNull ==
    /\ pc = "reparsed"
    /\ res.status = "none"
    /\ v = MkDouble(DecNaN)
    /\ text = <<110, 117, 108, 108>>
    /\ res2 = [status |-> "success", value |-> Null]

---------------------------------------------------------------------------
(* C3 *)

\* Texts of one complete JSON value: 1, 0, 1.5, "a", null, [], {}
FirstValues ==
    {<<49>>, <<48>>, <<49, 46, 53>>, <<34, 97, 34>>, <<110, 117, 108, 108>>,
     <<91, 93>>, <<123, 125>>}

\* The input starts with the value text val and val is all of its first
\* value: the byte after a number does not continue the number
StartsWithValue(s, val) ==
    /\ Len(s) >= Len(val)
    /\ SubSeq(s, 1, Len(val)) = val
    /\ (isdigit(val[1]) /\ Len(s) > Len(val))
          => ~(isdigit(s[Len(val) + 1]) \/ s[Len(val) + 1] \in {46, 69, 101})

\* Only space, tab, CR and LF from index i to the end of s
OnlyJsonSpaceFrom(s, i) == \A k \in i..Len(s) : s[k] \in {32, 9, 13, 10}

\* C3: when the input starts with a complete value, public parse returns
\* success exactly when only space, tab, CR and LF follow the value up to the
\* end of input, and trailing_content when any other byte follows.
C3_TrailingContent ==
    pc # "start" =>
        \A val \in FirstValues :
            StartsWithValue(input, val) =>
                res.status = IF OnlyJsonSpaceFrom(input, Len(val) + 1)
                             THEN "success" ELSE "trailing_content"

\* The vertical-tab case of C3: 1.5 followed by VT returns success, while
\* a byte other than space, tab, CR and LF follows the value.
C3_VerticalTabAccepted ==
    /\ pc = "parsed"
    /\ input = <<49, 46, 53, 11>>
    /\ res = [status |-> "success", value |-> MkDouble(MkDec("fin", FALSE, <<1, 5>>, 1))]

---------------------------------------------------------------------------
(* C4 *)

\* C4: the status public parse returns is never absent_value, for any input,
\* and the empty input returns success.
C4_NeverAbsentValue ==
    /\ res.status # "absent_value"
    /\ res2.status # "absent_value"
    /\ (pc # "start" /\ input = <<>>) => res.status = "success"

\* The empty-input case of C4: public parse of zero bytes returns
\* absent_value with a Null value.
C4_EmptyInputAbsent ==
    /\ pc = "parsed"
    /\ input = <<>>
    /\ res = [status |-> "absent_value", value |-> Null]

---------------------------------------------------------------------------
(* C5 *)

\* C5: when public parse returns a status other than success, the returned
\* value holds nothing built before the error: no Array or Object with the
\* elements read so far and no number whose kind was set before its
\* validation failed.  An error met inside the first value leaves nothing
\* else a value could hold, so the value is the Null the parse started from;
\* trailing_content, met after a complete first value, is left aside.
C5_NoPartialTree ==
    (pc # "start" /\ res.status \notin {"success", "trailing_content"})
        => res.value = Null

\* The partial-array case of C5: [1x returns illegal_character with the
\* Array holding the 1 read before the error.
C5_PartialArray ==
    /\ pc = "parsed"
    /\ input = <<91, 49, 120>>
    /\ res = [status |-> "illegal_character",
              value |-> [type |-> "Array", array_value |-> <<MkLong([neg |-> FALSE, mag |-> <<1>>])>>]]

\* The number-slot case of C5: 1e returns bad_exponent with a Double 1
C5_NumberSlot ==
    /\ pc = "parsed"
    /\ input = <<49, 101>>
    /\ res = [status |-> "bad_exponent",
              value |-> MkDouble(MkDec("fin", FALSE, <<1>>, 1))]

---------------------------------------------------------------------------
(* C6 *)

\* The context masks a recursive call is entered with
Contexts == {0, ARRAY, ARRAY + COMMA, OBJECT + KEY, OBJECT + COLON,
             OBJECT + KEY + COMMA}

\* C6: n arrays nested around the scalar 1 parse with success for n up to
\* 19 and are rejected with depth_exceeded for n = 20 and more; a recursive
\* parse call entered with remaining depth zero returns depth_exceeded with
\* its cursor where it was, whatever the position and the context.
C6_ArrayDepth ==
    pc # "start" =>
        /\ \A n \in 0..MaxNest :
              input = Nest("array", n, TRUE) =>
                  res.status = IF n <= 19 THEN "success" ELSE "depth_exceeded"
        /\ \A p \in 1..(Len(input) + 1) : \A context \in Contexts :
              Parse(emplaceMoves, input, p, context, 0, Null)
                  = Ret("depth_exceeded", p, Null)

\* 20 arrays around the scalar 1 have been rejected with depth_exceeded
C6_TwentyArraysRejected ==
    /\ pc = "parsed"
    /\ input = Nest("array", 20, TRUE)
    /\ res.status = "depth_exceeded"

---------------------------------------------------------------------------
(* C7 *)

\* C7 as stated: nesting of exactly 20 containers (arrays, objects or both,
\* the innermost empty or holding a scalar) parses with success, and nesting
\* of 21 containers returns depth_exceeded.
C7_TwentyContainersParse ==
    pc # "start" =>
        \A kind \in NestKinds : \A scalar \in BOOLEAN :
            /\ input = Nest(kind, 20, scalar) => res.status = "success"
            /\ input = Nest(kind, 21, scalar) => res.status = "depth_exceeded"

\* C7 amended: nesting of n containers (arrays, objects or both, the
\* innermost empty or holding a scalar) parses with success for n up to 19
\* and returns depth_exceeded for n = 20 and more.
C7_NineteenContainersParse ==
    pc # "start" =>
        \A kind \in NestKinds : \A scalar \in BOOLEAN : \A n \in 1..MaxNest :
            input = Nest(kind, n, scalar) =>
                res.status = IF n <= 19 THEN "success" ELSE "depth_exceeded"

\* 20 containers, arrays and objects in turn and the innermost empty, have
\* been rejected with depth_exceeded
C7_TwentyContainersRejected ==
    /\ pc = "parsed"
    /\ input = Nest("mixed", 20, FALSE)
    /\ res.status = "depth_exceeded"

---------------------------------------------------------------------------
(* C8 *)

\* The tokens of a text of GrammarInputs, from index i on: the structural
\* bytes as they are, 34 for a string (three bytes "k"), 49 for the scalar
RECURSIVE TokensFrom(_, _)
TokensFrom(s, i) ==
    IF i > Len(s) THEN <<>>
    ELSE IF s[i] = 32 THEN TokensFrom(s, i + 1)
    ELSE IF s[i] = 34 THEN <<34>> \o TokensFrom(s, i + 3)
    ELSE <<s[i]>> \o TokensFrom(s, i + 1)

\* The JSON grammar over tokens.  ValueEnd(ts, i) is the index after the
\* value that starts at the i-th token, 0 when no value starts there;
\* ElementsEnd and MembersEnd are the same for the rest of an array after
\* [ or a comma, and for the rest of an object after { or a comma.
TokenAt(ts, i) == IF i >= 1 /\ i <= Len(ts) THEN ts[i] ELSE 0

RECURSIVE ValueEnd(_, _)
RECURSIVE ElementsEnd(_, _)
RECURSIVE MembersEnd(_, _)

\* After an element that ended before index e: ] closes, a comma continues
ElementsAfter(ts, e) ==
    IF e = 0 THEN 0
    ELSE IF TokenAt(ts, e) = 93 THEN e + 1
    ELSE IF TokenAt(ts, e) = 44 THEN ElementsEnd(ts, e + 1)
    ELSE 0

ElementsEnd(ts, i) == ElementsAfter(ts, ValueEnd(ts, i))

\* After an entry that ended before index e: } closes, a comma continues
MembersAfter(ts, e) ==
    IF e = 0 THEN 0
    ELSE IF TokenAt(ts, e) = 125 THEN e + 1
    ELSE IF TokenAt(ts, e) = 44 THEN MembersEnd(ts, e + 1)
    ELSE 0

MembersEnd(ts, i) ==
    IF TokenAt(ts, i) = 34 /\ TokenAt(ts, i + 1) = 58
    THEN MembersAfter(ts, ValueEnd(ts, i + 2))
    ELSE 0

ValueEnd(ts, i) ==
    CASE TokenAt(ts, i) \in {34, 49} -> i + 1
      [] TokenAt(ts, i) = 91 ->
            IF TokenAt(ts, i + 1) = 93 THEN i + 2 ELSE ElementsEnd(ts, i + 1)
      [] TokenAt(ts, i) = 123 ->
            IF TokenAt(ts, i + 1) = 125 THEN i + 2 ELSE MembersEnd(ts, i + 1)
      [] OTHER -> 0

\* The tokens are exactly one well-formed JSON value
IsOneValue(ts) == ValueEnd(ts, 1) = Len(ts) + 1

\* C8: strict grammar.  For every sequence of the tokens [ ] { } , : string
\* and scalar, public parse returns success if and only if the sequence is
\* exactly one well-formed JSON value.
C8_StrictGrammar ==
    pc # "start" =>
        (res.status = "success" <=> IsOneValue(TokensFrom(input, 1)))

\* The object { "k" : 1 } has been parsed with success
C8_ObjectAccepted ==
    /\ pc = "parsed"
    /\ input = <<123, 32, 34, 107, 34, 32, 58, 32, 49, 32, 125>>
    /\ res.status = "success"
    /\ res.value.type = "Object"

---------------------------------------------------------------------------
(* C9 *)

\* b[i] is a continuation byte within lo..hi
ContIn(b, i, lo, hi) == i <= Len(b) /\ b[i] >= lo /\ b[i] <= hi

\* Well-formed UTF-8 from index i on (Unicode, table 3-7): no overlong
\* form, no surrogate, nothing above U+10FFFF, no stray or missing
\* continuation byte
RECURSIVE WellFormedFrom(_, _)
WellFormedFrom(b, i) ==
    IF i > Len(b) THEN TRUE
    ELSE CASE b[i] <= 127 -> WellFormedFrom(b, i + 1)
           [] b[i] >= 194 /\ b[i] <= 223 ->
                ContIn(b, i + 1, 128, 191) /\ WellFormedFrom(b, i + 2)
           [] b[i] = 224 ->
                /\ ContIn(b, i + 1, 160, 191) /\ ContIn(b, i + 2, 128, 191)
                /\ WellFormedFrom(b, i + 3)
           [] (b[i] >= 225 /\ b[i] <= 236) \/ b[i] \in {238, 239} ->
                /\ ContIn(b, i + 1, 128, 191) /\ ContIn(b, i + 2, 128, 191)
                /\ WellFormedFrom(b, i + 3)
           [] b[i] = 237 ->
                /\ ContIn(b, i + 1, 128, 159) /\ ContIn(b, i + 2, 128, 191)
                /\ WellFormedFrom(b, i + 3)
           [] b[i] = 240 ->
                /\ ContIn(b, i + 1, 144, 191) /\ ContIn(b, i + 2, 128, 191)
                /\ ContIn(b, i + 3, 128, 191) /\ WellFormedFrom(b, i + 4)
           [] b[i] >= 241 /\ b[i] <= 243 ->
                /\ ContIn(b, i + 1, 128, 191) /\ ContIn(b, i + 2, 128, 191)
                /\ ContIn(b, i + 3, 128, 191) /\ WellFormedFrom(b, i + 4)
           [] b[i] = 244 ->
                /\ ContIn(b, i + 1, 128, 143) /\ ContIn(b, i + 2, 128, 191)
                /\ ContIn(b, i + 3, 128, 191) /\ WellFormedFrom(b, i + 4)
           [] OTHER -> FALSE

\* Every String payload and every object key of j is well-formed UTF-8
RECURSIVE AllWellFormed(_)
AllWellFormed(j) ==
    CASE j.type = "String" -> WellFormedFrom(j.string_value_, 1)
      [] j.type = "Array" ->
            \A i \in DOMAIN j.array_value : AllWellFormed(j.array_value[i])
      [] j.type = "Object" ->
            \A i \in DOMAIN j.object_value :
                /\ WellFormedFrom(j.object_value[i].k, 1)
                /\ AllWellFormed(j.object_value[i].v)
      [] OTHER -> TRUE

\* C9: whenever parse succeeds, every String payload and every object key of
\* the result is well-formed UTF-8.
C9_Utf8WellFormed ==
    (pc # "start" /\ res.status = "success") => AllWellFormed(res.value)

\* The escaped surrogate pair \uD834\uDD1E has been parsed to the four
\* bytes F0 9D 84 9E of U+1D11E
C9_SurrogatePairMerged ==
    /\ pc = "parsed"
    /\ input = <<34, 92, 117, 68, 56, 51, 52, 92, 117, 68, 68, 49, 69, 34>>
    /\ res = [status |-> "success", value |-> MkString(<<240, 157, 132, 158>>)]

---------------------------------------------------------------------------
(* C10 *)

\* The entries written in an object text of ObjectInputs, in the order of
\* the text, read from index i (the byte after { or after a comma): the
\* key is "a" (the key a) when a backslash follows its quote, one raw
\* byte otherwise; the value is 1, 2, null or "x".
RECURSIVE WrittenEntries(_, _)
WrittenEntries(s, i) ==
    IF i > Len(s) \/ s[i] # 34 THEN <<>>
    ELSE LET esc == s[i + 1] = 92
             k == IF esc THEN <<97>> ELSE <<s[i + 1]>>
             j == i + (IF esc THEN 9 ELSE 4)
             val == CASE s[j] = 49 -> MkLong([neg |-> FALSE, mag |-> <<1>>])
                      [] s[j] = 50 -> MkLong([neg |-> FALSE, mag |-> <<2>>])
                      [] s[j] = 110 -> Null
                      [] OTHER -> MkString(<<s[j + 1]>>)
             len == CASE s[j] \in {49, 50} -> 1
                      [] s[j] = 110 -> 4
                      [] OTHER -> 3
         IN  <<[k |-> k, v |-> val]>> \o WrittenEntries(s, j + len + 1)

\* The index of the last entry of es written with the key k
LastWritten(es, k) ==
    CHOOSE i \in DOMAIN es :
        es[i].k = k /\ \A j \in DOMAIN es : es[j].k = k => j <= i

\* C10: when an object text writes a key more than once, the keys compared
\* after escape decoding, the parsed Object maps the key to the value of its
\* last occurrence and holds exactly one entry for it.
C10_LastWriterWins ==
    (pc # "start" /\ res.status = "success") =>
        LET es == WrittenEntries(input, 2)
            m == res.value.object_value
        IN  \A i \in DOMAIN es :
                (\E j \in DOMAIN es : j # i /\ es[j].k = es[i].k) =>
                    /\ Cardinality({n \in DOMAIN m : m[n].k = es[i].k}) = 1
                    /\ \A n \in DOMAIN m :
                          m[n].k = es[i].k => m[n].v = es[LastWritten(es, es[i].k)].v

\* The duplicate-key case of C10: {"a":1,"a":2} has been parsed to the
\* Object that maps a to 1, the value of the first occurrence.
C10_FirstWriterKept ==
    /\ pc = "parsed"
    /\ input = <<123, 34, 97, 34, 58, 49, 44, 34, 97, 34, 58, 50, 125>>
    /\ res = [status |-> "success",
              value |-> [type |-> "Object",
                         object_value |-> <<[k |-> <<97>>,
                                             v |-> MkLong([neg |-> FALSE, mag |-> <<1>>])]>>]]

\* No parsed Object holds two entries with the same key
C10_OneEntryPerKey ==
    (pc # "start" /\ res.value.type = "Object") =>
        \A i, j \in DOMAIN res.value.object_value :
            res.value.object_value[i].k = res.value.object_value[j].k => i = j

---------------------------------------------------------------------------
(* C11 *)

MaxDigits == 3

\* Digit sequences around the ends of the 64-bit range: 2^63 - 2 .. 2^63 + 2,
\* 2^64 and 2^64 + 1 (which wrap to 0 and 1), 10^18, 10^19 - 1 and 10^19,
\* and ten times 2^63 - 1
EdgeDigits ==
    {<<9,2,2,3,3,7,2,0,3,6,8,5,4,7,7,5,8,0,6>>,
     <<9,2,2,3,3,7,2,0,3,6,8,5,4,7,7,5,8,0,7>>,
     <<9,2,2,3,3,7,2,0,3,6,8,5,4,7,7,5,8,0,8>>,
     <<9,2,2,3,3,7,2,0,3,6,8,5,4,7,7,5,8,0,9>>,
     <<9,2,2,3,3,7,2,0,3,6,8,5,4,7,7,5,8,1,0>>,
     <<1,8,4,4,6,7,4,4,0,7,3,7,0,9,5,5,1,6,1,6>>,
     <<1,8,4,4,6,7,4,4,0,7,3,7,0,9,5,5,1,6,1,7>>,
     <<1,0,0,0,0,0,0,0,0,0,0,0,0,0,0,0,0,0,0>>,
     <<9,9,9,9,9,9,9,9,9,9,9,9,9,9,9,9,9,9,9>>,
     <<1,0,0,0,0,0,0,0,0,0,0,0,0,0,0,0,0,0,0,0>>,
     <<9,2,2,3,3,7,2,0,3,6,8,5,4,7,7,5,8,0,7,0>>}

\* The digit sequences of integer literals: 0, the sequences of at most n
\* digits out of 0 1 9 that do not start with 0, and the edge sequences
IntegerDigits(n) ==
    {<<0>>} \cup {ds \in SeqsUpTo({0, 1, 9}, n) : ds # <<>> /\ ds[1] # 0}
    \cup EdgeDigits

\* The integer literals, with and without a minus sign
IntegerInputs(n) ==
    {sign \o [i \in DOMAIN ds |-> ds[i] + 48] :
        sign \in {<<>>, <<45>>}, ds \in IntegerDigits(n)}

InitInteger == InitParse(IntegerInputs(MaxDigits))

SpecInteger == InitInteger /\ [][NextParse]_vars

\* The literal reads an integer literal: its sign and its digits
LiteralNeg(s) == s # <<>> /\ s[1] = 45

LiteralDigits(s) ==
    [i \in 1..(Len(s) - (IF LiteralNeg(s) THEN 1 ELSE 0)) |->
        s[i + (IF LiteralNeg(s) THEN 1 ELSE 0)] - 48]

\* a <= b for two digit sequences of the same length
RECURSIVE DigitsLeq(_, _, _)
DigitsLeq(a, b, i) ==
    IF i > Len(a) THEN TRUE
    ELSE IF a[i] # b[i] THEN a[i] < b[i]
    ELSE DigitsLeq(a, b, i + 1)

\* -2^63 <= n <= 2^63 - 1 for the integer of sign neg and digits ds (no
\* leading zero): fewer than 19 digits, or 19 digits not above
\* 9223372036854775807 (9223372036854775808 when negative)
FitsInt64(neg, ds) ==
    \/ Len(ds) < 19
    \/ /\ Len(ds) = 19
       /\ DigitsLeq(ds, <<9,2,2,3,3,7,2,0,3,6,8,5,4,7,7,5,8,0, IF neg THEN 8 ELSE 7>>, 1)

\* C11: an integer literal of value n parses to the Long n when
\* -2^63 <= n <= 2^63 - 1 and to a Double when n is outside that range; no
\* wrapped accumulator is returned as a Long.
C11_IntegerRange ==
    pc # "start" =>
        LET neg == LiteralNeg(input)
            ds == LiteralDigits(input)
        IN  /\ res.status = "success"
            /\ IF FitsInt64(neg, ds)
               THEN res.value = MkLong([neg |-> neg /\ ds # <<0>>, mag |-> ds])
               ELSE res.value.type = "Double"

\* -9223372036854775808 has been parsed to the Long -2^63
C11_MinLongParsed ==
    /\ pc = "parsed"
    /\ input = <<45, 57,50,50,51,51,55,50,48,51,54,56,53,52,55,55,53,56,48,56>>
    /\ res = [status |-> "success",
              value |-> MkLong([neg |-> TRUE,
                                mag |-> <<9,2,2,3,3,7,2,0,3,6,8,5,4,7,7,5,8,0,8>>])]

---------------------------------------------------------------------------
(* C12 *)

MaxNumberTokens == 3

\* 0  1  5  -  +  .  e  x  ]  space  and the twenty digits
\* 99999999999999999999
NumberTokens ==
    {<<48>>, <<49>>, <<53>>, <<45>>, <<43>>, <<46>>, <<101>>, <<120>>, <<93>>,
     <<32>>, [i \in 1..20 |-> 57]}

\* Any text of at most n of these tokens, written one after the other
NumberInputs(n) == {Flatten(ts) : ts \in SeqsUpTo(NumberTokens, n)}

InitNumber == InitParse(NumberInputs(MaxNumberTokens))

SpecNumber == InitNumber /\ [][NextParse]_vars

\* The byte of s at index i, -1 past the end
ByteAt(s, i) == IF i >= 1 /\ i <= Len(s) THEN s[i] ELSE -1

IsDigitByte(c) == c >= 48 /\ c <= 57

\* The index after the run of digits that starts at index i
RECURSIVE DigitRunEnd(_, _)
DigitRunEnd(s, i) ==
    IF IsDigitByte(ByteAt(s, i)) THEN DigitRunEnd(s, i + 1) ELSE i

\* The contexts in which a value is allowed: the top level, the place after
\* a comma or a colon (0) and the first place of an array (ARRAY)
ValueContexts == {0, ARRAY}

\* What the recursive parse returns on s wherever a value is allowed
ValueParses(s) ==
    {Parse(emplaceMoves, s, 1, context, DEPTH, Null) : context \in ValueContexts}

\* C12: where a value is allowed, a 0 not followed by '.', 'e', 'E' or a
\* digit yields Long 0; a 0 followed by a digit, also after a minus sign,
\* yields unexpected_octal; a '-' not followed by a digit yields
\* bad_negative; digits (0, or a digit run that starts with 1..9, also after a
\* minus sign) followed by a '.' that no digit follows yield bad_double; a
\* leading '+' yields illegal_character.
C12_NumberEdges ==
    pc # "start" =>
        LET s == input
            first == IF ByteAt(s, 1) = 45 THEN 2 ELSE 1
            int == IF ByteAt(s, first) = 48 THEN first + 1
                   ELSE DigitRunEnd(s, first)
        IN  /\ (ByteAt(s, first) = 48
                /\ ~IsDigitByte(ByteAt(s, first + 1))
                /\ ByteAt(s, first + 1) \notin {46, 101, 69})
                  => /\ \A r \in ValueParses(s) :
                          r = Ret("success", first + 1, MkLong(LongZero))
                     /\ res.status \in {"success", "trailing_content"}
                     /\ res.value = MkLong(LongZero)
            /\ (ByteAt(s, first) = 48 /\ IsDigitByte(ByteAt(s, first + 1)))
                  => /\ \A r \in ValueParses(s) : r.status = "unexpected_octal"
                     /\ res.status = "unexpected_octal"
            /\ (ByteAt(s, 1) = 45 /\ ~IsDigitByte(ByteAt(s, 2)))
                  => /\ \A r \in ValueParses(s) : r.status = "bad_negative"
                     /\ res.status = "bad_negative"
            /\ (int > first /\ ByteAt(s, int) = 46 /\ ~IsDigitByte(ByteAt(s, int + 1)))
                  => /\ \A r \in ValueParses(s) : r.status = "bad_double"
                     /\ res.status = "bad_double"
            /\ ByteAt(s, 1) = 43
                  => /\ \A r \in ValueParses(s) : r.status = "illegal_character"
                     /\ res.status = "illegal_character"

\* The overflow case of C12: twenty nines followed by '.' and nothing else
\* have been parsed with success to a Double.
C12_OverflowDotAccepted ==
    /\ pc = "parsed"
    /\ input = [i \in 1..21 |-> IF i = 21 THEN 46 ELSE 57]
    /\ res.status = "success"
    /\ res.value = MkDouble(MkDec("fin", FALSE, [i \in 1..20 |-> 9], 20))

---------------------------------------------------------------------------
(* C13: \uHHHH escapes and surrogate pairs *)

\* The UTF-8 encoding of the scalar value c (RFC 3629, section 3)
Utf8Of(c) ==
    IF c < 128 THEN <<c>>
    ELSE IF c < 2048 THEN <<192 + (c \div 64), 128 + (c % 64)>>
    ELSE IF c < 65536 THEN
        <<224 + (c \div 4096), 128 + ((c \div 64) % 64), 128 + (c % 64)>>
    ELSE <<240 + (c \div 262144), 128 + ((c \div 4096) % 64),
           128 + ((c \div 64) % 64), 128 + (c % 64)>>

\* s[i..i+5] is a backslash, a 'u' and four hexadecimal digits
IsUnicodeEscapeAt(s, i) ==
    /\ i + 5 <= Len(s)
    /\ s[i] = 92
    /\ s[i + 1] = 117
    /\ \A k \in 2..5 : kHexToInt(s[i + k]) # -1

\* The code unit spelled by the escape at s[i..i+5]
EscapeUnitAt(s, i) ==
    kHexToInt(s[i + 2]) * 4096 + kHexToInt(s[i + 3]) * 256
    + kHexToInt(s[i + 4]) * 16 + kHexToInt(s[i + 5])

IsHighUnit(u) == \hD800 <= u /\ u <= \hDBFF

IsLowUnit(u) == \hDC00 <= u /\ u <= \hDFFF

\* The text that a body made of plain ASCII characters, escapes of
\* non-surrogates and pairs of a high and a low surrogate escape stands for;
\* ok is FALSE when the body from i on holds anything else
RECURSIVE DecodedFrom(_, _)
DecodedPut(bytes, rest) == [ok |-> rest.ok, out |-> bytes \o rest.out]

DecodedFrom(s, i) ==
    IF i > Len(s) THEN [ok |-> TRUE, out |-> <<>>]
    ELSE IF s[i] \in 32..126 /\ s[i] \notin {34, 92}
    THEN DecodedPut(<<s[i]>>, DecodedFrom(s, i + 1))
    ELSE IF ~IsUnicodeEscapeAt(s, i) THEN [ok |-> FALSE, out |-> <<>>]
    ELSE IF ~IsHighUnit(EscapeUnitAt(s, i)) /\ ~IsLowUnit(EscapeUnitAt(s, i))
    THEN DecodedPut(Utf8Of(EscapeUnitAt(s, i)), DecodedFrom(s, i + 6))
    ELSE IF /\ IsHighUnit(EscapeUnitAt(s, i))
            /\ IsUnicodeEscapeAt(s, i + 6)
            /\ IsLowUnit(EscapeUnitAt(s, i + 6))
    THEN DecodedPut(Utf8Of(\h10000 + (EscapeUnitAt(s, i) - \hD800) * 1024
                           + (EscapeUnitAt(s, i + 6) - \hDC00)),
                    DecodedFrom(s, i + 12))
    ELSE [ok |-> FALSE, out |-> <<>>]

\* The text is one string literal: a quote, a body, a quote
IsStringText(s) == Len(s) >= 2 /\ s[1] = 34 /\ s[Len(s)] = 34

BodyOf(s) == SubSeq(s, 2, Len(s) - 1)

ParsedToString(d) == d.ok => res.status = "success" /\ res.value = MkString(d.out)

\* C13: a string literal made of plain characters, \uHHHH escapes of
\* non-surrogate code points and pairs of a high-surrogate escape directly
\* followed by a low-surrogate escape parses to the string holding, in order,
\* each character, the UTF-8 encoding of each escaped code point, and for each
\* pair the four-byte UTF-8 encoding of
\* 0x10000 + ((hi - 0xD800) << 10) + (lo - 0xDC00), the twelve bytes of a pair
\* being consumed as one unit.
C13_EscapeDecoding ==
    pc # "start" /\ IsStringText(input) =>
        ParsedToString(DecodedFrom(BodyOf(input), 1))

\* "\uD834\uDD1EA" has been parsed to U+1D11E followed by A
C13_PairThenLetter ==
    /\ pc = "parsed"
    /\ input = <<34, 92, 117, 68, 56, 51, 52, 92, 117, 68, 68, 49, 69, 65, 34>>
    /\ res.status = "success"
    /\ res.value = MkString(<<240, 157, 132, 158, 65>>)

---------------------------------------------------------------------------
(* C14: surrogate escapes without a partner *)

\* The escape at s[i..i+5] spells a surrogate that is no half of a pair: a
\* low surrogate, or a high surrogate that no low-surrogate escape follows
IsLoneSurrogateAt(s, i) ==
    /\ IsUnicodeEscapeAt(s, i)
    /\ \/ IsLowUnit(EscapeUnitAt(s, i))
       \/ /\ IsHighUnit(EscapeUnitAt(s, i))
          /\ ~(IsUnicodeEscapeAt(s, i + 6) /\ IsLowUnit(EscapeUnitAt(s, i + 6)))

\* DecodedFrom, with the six characters of a lone surrogate escape standing
\* for themselves; lone counts them
RECURSIVE EchoedFrom(_, _)
EchoedPut(bytes, n, rest) ==
    [ok |-> rest.ok, out |-> bytes \o rest.out, lone |-> n + rest.lone]

EchoedFrom(s, i) ==
    IF i > Len(s) THEN [ok |-> TRUE, out |-> <<>>, lone |-> 0]
    ELSE IF s[i] \in 32..126 /\ s[i] \notin {34, 92}
    THEN EchoedPut(<<s[i]>>, 0, EchoedFrom(s, i + 1))
    ELSE IF ~IsUnicodeEscapeAt(s, i) THEN [ok |-> FALSE, out |-> <<>>, lone |-> 0]
    ELSE IF IsLoneSurrogateAt(s, i)
    THEN EchoedPut(SubSeq(s, i, i + 5), 1, EchoedFrom(s, i + 6))
    ELSE IF IsHighUnit(EscapeUnitAt(s, i))
    THEN EchoedPut(Utf8Of(\h10000 + (EscapeUnitAt(s, i) - \hD800) * 1024
                          + (EscapeUnitAt(s, i + 6) - \hDC00)),
                   0, EchoedFrom(s, i + 12))
    ELSE EchoedPut(Utf8Of(EscapeUnitAt(s, i)), 0, EchoedFrom(s, i + 6))

ParsedEchoing(d) ==
    d.ok /\ d.lone > 0 =>
        /\ res.status = "success"
        /\ res.value = MkString(d.out)
        /\ WellFormedFrom(d.out, 1)

\* C14: a string literal holding a low-surrogate escape on its own, or a
\* high-surrogate escape that no low-surrogate escape follows, and otherwise
\* plain characters and well-formed escapes, parses with success; the payload
\* holds the six ASCII characters of each such escape where the escape stood,
\* what follows is decoded as usual, and the payload is well-formed UTF-8.
C14_LoneSurrogateEchoed ==
    pc # "start" /\ IsStringText(input) =>
        ParsedEchoing(EchoedFrom(BodyOf(input), 1))

\* "\uD834\u00e9" has been parsed to the six characters \uD834 and C3 A9
C14_HighThenLatin ==
    /\ pc = "parsed"
    /\ input = <<34, 92, 117, 68, 56, 51, 52, 92, 117, 48, 48, 101, 57, 34>>
    /\ res.status = "success"
    /\ res.value = MkString(<<92, 117, 68, 56, 51, 52, 195, 169>>)

---------------------------------------------------------------------------
(* C15: CESU-8 surrogate pairs in a string body *)

\* s[i..i+5] is ED hi x ED lo y with ED hi x a high surrogate (hi in A0..AF)
\* and ED lo y a low surrogate (lo in B0..BF) in three-byte form
IsCesuPairAt(s, i) ==
    /\ i + 5 <= Len(s)
    /\ s[i] = 237 /\ s[i + 1] \in 160..175 /\ s[i + 2] \in 128..191
    /\ s[i + 3] = 237 /\ s[i + 4] \in 176..191 /\ s[i + 5] \in 128..191

\* The code point of the pair at s[i..i+5]
CesuCodePoint(s, i) ==
    \h10000
    + ((s[i + 1] - 160) * 64 + (s[i + 2] - 128)) * 1024
    + ((s[i + 4] - 176) * 64 + (s[i + 5] - 128))

\* C15: a string literal whose body is one CESU-8 surrogate pair parses with
\* success to the four-byte UTF-8 encoding of the code point of the pair.
C15_CesuPairAccepted ==
    (/\ pc # "start"
     /\ IsStringText(input)
     /\ Len(input) = 8
     /\ IsCesuPairAt(input, 2))
    => /\ res.status = "success"
       /\ res.value = MkString(Utf8Of(CesuCodePoint(input, 2)))

\* The body ED AE 80 ED B0 80 has been refused: the branch decodes the pair
\* and leaves the cursor on AE, which the next turn takes for a stray byte
C15_CesuPairRefused ==
    /\ pc = "parsed"
    /\ input = <<34, 237, 174, 128, 237, 176, 128, 34>>
    /\ res.status = "illegal_utf8_character"

\* The body ED A0 80 ED B0 80 has been refused: a high surrogate below
\* ED AE never enters the branch
C15_LowPlanePairRefused ==
    /\ pc = "parsed"
    /\ input = <<34, 237, 160, 128, 237, 176, 128, 34>>
    /\ res.status = "utf16_surrogate_in_utf8"

---------------------------------------------------------------------------
(* C16: a comma directly before the closing brace of an object *)

\* s with a comma put before its last byte
CommaBeforeLast(s) == SubSeq(s, 1, Len(s) - 1) \o <<44>> \o <<s[Len(s)]>>

\* s without the byte before its last byte
WithoutBeforeLast(s) == SubSeq(s, 1, Len(s) - 2) \o <<s[Len(s)]>>

\* {"Extra comma": true,}
ExtraCommaText ==
    <<123, 34, 69, 120, 116, 114, 97, 32, 99, 111, 109, 109, 97, 34, 58, 32,
      116, 114, 117, 101, 44, 125>>

\* The objects of at most n entries, each as it is and with a comma before
\* its closing brace, and the text {"Extra comma": true,}
CommaObjectInputs(n) ==
    ObjectInputs(n) \cup {CommaBeforeLast(o) : o \in ObjectInputs(n)}
    \cup {ExtraCommaText}

InitCommaObject == InitParse(CommaObjectInputs(MaxEntries))

SpecCommaObject == InitCommaObject /\ [][NextParse]_vars

\* s is the text of an object with a comma directly before its closing
\* brace: s without that comma parses to an Object
IsCommaObject(em, s) ==
    /\ Len(s) >= 3
    /\ s[1] = 123 /\ s[Len(s) - 1] = 44 /\ s[Len(s)] = 125
    /\ PublicParse(em, WithoutBeforeLast(s)).status = "success"

HasMembers(em, s) == PublicParse(em, WithoutBeforeLast(s)).value.object_value # <<>>

\* C16 as stated: the text of an object with a comma directly before the
\* closing brace makes parse return unexpected_comma or illegal_character.
C16_TrailingCommaStatus ==
    pc # "start" /\ IsCommaObject(emplaceMoves, input) =>
        res.status \in {"unexpected_comma", "illegal_character"}

\* C16, amended: the text of an object with a comma directly before the
\* closing brace makes parse return unexpected_end_of_object when the object
\* has a member, and unexpected_comma when it has none.
C16_TrailingCommaEndOfObject ==
    pc # "start" /\ IsCommaObject(emplaceMoves, input) =>
        res.status = IF HasMembers(emplaceMoves, input)
                     THEN "unexpected_end_of_object"
                     ELSE "unexpected_comma"

\* {"Extra comma": true,} has been refused with unexpected_end_of_object
C16_ExtraCommaRefused ==
    /\ pc = "parsed"
    /\ input = ExtraCommaText
    /\ res.status = "unexpected_end_of_object"

---------------------------------------------------------------------------
(* C17: operator[](size_t) *)

\* The elements of the vector of j, none when j is no Array
ElementsOf(j) == IF j.type = "Array" THEN j.array_value ELSE <<>>

\* C17: after v[i], for any v and any index i, v is an Array of at least
\* i + 1 elements, the elements it had as an Array are where they were, every
\* other element is Null (the payload of a non-Array is gone), and the
\* reference returned is to element i of the vector, also when i is larger
\* than the size before the call.
C17_IndexGrowsToFit ==
    pc \in {"accessed", "crashed"} /\ call.op = "index" =>
        /\ v.type = "Array"
        /\ Len(v.array_value) >= call.index + 1
        /\ \A n \in DOMAIN v.array_value :
              v.array_value[n] = IF n <= Len(ElementsOf(call.before))
                                 THEN ElementsOf(call.before)[n]
                                 ELSE Null
        /\ call.inBounds
        /\ pc = "accessed"

\* v[1] has been called on a Null v: v is an Array of one Null, and the
\* reference returned is to array_value[1], past its end
C17_IndexPastEnd ==
    /\ call = Call("index", 1, <<>>, Null, TRUE, FALSE, Null)
    /\ v = [type |-> "Array", array_value |-> <<Null>>]
    /\ pc = "accessed"

\* The same call has killed the process
C17_IndexPastEndCrashed ==
    /\ call = Call("index", 1, <<>>, Null, TRUE, FALSE, Null)
    /\ pc = "crashed"

---------------------------------------------------------------------------
(* C18: operator[](const std::string&) *)

\* The entries of the map of j, none when j is no Object
EntriesOf(j) == IF j.type = "Object" THEN j.object_value ELSE <<>>

\* Every entry of the map m is an entry of the map n, with the same value
EntriesKept(m, n) ==
    \A i \in DOMAIN m : MapContains(n, m[i].k) /\ MapGet(n, m[i].k) = m[i].v

\* C18: after v[k], an Object that held the key k is as it was; an Object
\* that did not hold k has one entry more, k with a Null value, and its
\* other entries as they were; a value of any other kind has become an
\* Object whose only entry is k, with a Null value.  The call returns.
C18_KeyFindsOrInserts ==
    pc \in {"accessed", "crashed", "aborted"} /\ call.op = "key" =>
        /\ pc = "accessed"
        /\ v.type = "Object"
        /\ MapContains(v.object_value, call.key)
        /\ IF MapContains(EntriesOf(call.before), call.key)
           THEN v = call.before
           ELSE /\ MapGet(v.object_value, call.key) = Null
                /\ Len(v.object_value) = Len(EntriesOf(call.before)) + 1
                /\ EntriesKept(EntriesOf(call.before), v.object_value)

\* v["b"] has been called on the Object {"a": true}: the entry a is as it
\* was and b has been inserted with a Null value
C18_SecondKeyInserted ==
    /\ pc = "accessed"
    /\ call.op = "key"
    /\ call.key = <<98>>
    /\ call.before = [type |-> "Object",
                      object_value |-> <<[k |-> <<97>>, v |-> MkBool(TRUE)]>>]
    /\ v = [type |-> "Object",
            object_value |-> <<[k |-> <<97>>, v |-> MkBool(TRUE)],
                               [k |-> <<98>>, v |-> Null]>>]

---------------------------------------------------------------------------
(* C19: the getters *)

\* The kind a getter is named after; getNumber is named after the three
\* numeric kinds
NamedKinds(name) ==
    CASE name = "getNumber" -> {"Long", "Float", "Double"}
      [] name = "getLong" -> {"Long"}
      [] name = "getBool" -> {"Bool"}
      [] name = "getFloat" -> {"Float"}
      [] name = "getDouble" -> {"Double"}
      [] name = "getString" -> {"String"}
      [] name = "getArray" -> {"Array"}
      [] name = "getObject" -> {"Object"}

\* The kinds a getter returns on: those it is named after, and for getFloat
\* and getDouble both floating-point kinds
ServedKinds(name) ==
    IF name \in {"getFloat", "getDouble"} THEN {"Float", "Double"}
    ELSE NamedKinds(name)

\* The payload of j in the return type of the getter name
PayloadAs(name, j) ==
    CASE name \in {"getNumber", "getDouble"} -> MkDouble(NumberOf(j))
      [] name = "getFloat" -> MkFloat(NumberOf(j))
      [] OTHER -> j

\* The getter recorded in call, which serves the kinds of kinds(_), has
\* aborted when v was of another kind, and has otherwise returned the
\* payload and left v as it was
GetterServes(kinds(_)) ==
    pc \in {"accessed", "aborted"} /\ call.op \in Getters =>
        /\ v = call.before
        /\ IF call.before.type \in kinds(call.op)
           THEN /\ pc = "accessed"
                /\ call.returned
                /\ call.ret = PayloadAs(call.op, call.before)
           ELSE /\ pc = "aborted"
                /\ ~call.returned

\* C19 as stated: a getter aborts exactly when the value is not of the kind
\* the getter is named after (for getNumber, not of a numeric kind); a getter
\* that does not abort returns the payload and changes nothing.
C19_GettersAbortOnMismatch == GetterServes(NamedKinds)

\* C19, amended: getFloat and getDouble abort exactly when the value is
\* neither a Float nor a Double, and return the payload of either kind in
\* their own return type; every other getter aborts exactly when the value is
\* not of the kind the getter is named after (for getNumber, not of a numeric
\* kind); a getter that does not abort returns the payload and changes
\* nothing.
C19_GettersAbortOutsideServedKinds == GetterServes(ServedKinds)

\* getFloat has returned 1.5 on a Double 1.5
C19_GetFloatOnDouble ==
    /\ pc = "accessed"
    /\ call.op = "getFloat"
    /\ call.before = MkDouble(MkDec("fin", FALSE, <<1, 5>>, 1))
    /\ call.returned
    /\ call.ret = MkFloat(MkDec("fin", FALSE, <<1, 5>>, 1))
    /\ v = call.before

---------------------------------------------------------------------------
(* C20: the escape shortcuts of the serializer *)

\* The code points that have a two-character escape in JSON: double quote,
\* backslash, slash, backspace, form feed, line feed, carriage return, tab
ShortcutCodePoints == {34, 92, 47, 8, 12, 10, 13, 9}

\* The letter of the two-character escape of the code point c
ShortcutLetter(c) ==
    CASE c = 8 -> 98
      [] c = 12 -> 102
      [] c = 10 -> 110
      [] c = 13 -> 114
      [] c = 9 -> 116
      [] OTHER -> c

\* What C20 says is printed for c: the shortcut of a shortcut code point
PrintedWithShortcuts(c) ==
    IF c \in ShortcutCodePoints THEN <<92, ShortcutLetter(c)>> ELSE <<c>>

\* The same, with \u0008 for the backspace
PrintedWithoutBackspaceShortcut(c) ==
    IF c = 8 THEN <<92, 117, 48, 48, 48, 56>> ELSE PrintedWithShortcuts(c)

\* v is a String of shortcut code points and letters A, and text is what
\* toString gave for it
ShortcutStringPrinted ==
    /\ pc = "printed"
    /\ v.type = "String"
    /\ \A i \in DOMAIN v.string_value_ :
          v.string_value_[i] \in ShortcutCodePoints \cup {65}

\* text is a quote, printed(c) for each byte c of the String v, and a quote
PrintedBy(printed(_)) ==
    text = <<34>>
           \o Flatten([i \in DOMAIN v.string_value_ |-> printed(v.string_value_[i])])
           \o <<34>>

\* C20 as stated: the serializer prints each of the eight shortcut code
\* points (double quote, backslash, slash, backspace, form feed, line feed,
\* carriage return, tab) as its two-character escape, never as \uHHHH.
C20_EightShortcuts == ShortcutStringPrinted => PrintedBy(PrintedWithShortcuts)

\* C20, amended: the serializer prints each of the seven code points double
\* quote, backslash, slash, form feed, line feed, carriage return and tab as
\* its two-character escape, never as \uHHHH, and the backspace as \u0008.
C20_SevenShortcuts ==
    ShortcutStringPrinted => PrintedBy(PrintedWithoutBackspaceShortcut)

\* The String parsed from "\b\t" has been printed as "\u0008\t"
C20_BackspacePrintedAsUnicodeEscape ==
    /\ pc = "printed"
    /\ input = <<34, 92, 98, 92, 116, 34>>
    /\ v = MkString(<<8, 9>>)
    /\ text = <<34, 92, 117, 48, 48, 48, 56, 92, 116, 34>>

---------------------------------------------------------------------------
(* C21: printable ASCII in the serializer *)

\* v is a String of bytes 20..7F, and text is what toString gave for it
AsciiStringPrinted ==
    /\ pc = "printed"
    /\ v.type = "String"
    /\ \A i \in DOMAIN v.string_value_ : v.string_value_[i] \in 32..127

\* What C21 says is printed for a byte c of 20..7F: the byte itself, but for
\* the double quote, the backslash and the slash (their shortcuts) and the
\* DEL, which is not printable (\u007f)
PrintedAsItself(c) ==
    IF c \in {34, 92, 47} THEN <<92, c>>
    ELSE IF c = 127 THEN Escape16(c)
    ELSE <<c>>

\* The same, with \u0026 \u0027 \u003c \u003d \u003e for  & ' < = >
PrintedButMarkup(c) ==
    IF c \in {38, 39, 60, 61, 62} THEN Escape16(c) ELSE PrintedAsItself(c)

\* C21 as stated: the serializer prints every printable ASCII code point
\* 0x20..0x7E other than double quote, backslash and slash as that single
\* byte, unescaped.
C21_PrintableAsciiRaw == AsciiStringPrinted => PrintedBy(PrintedAsItself)

\* C21, amended: the serializer prints every printable ASCII code point
\* 0x20..0x7E other than double quote, backslash, slash, ampersand,
\* apostrophe, less-than, equals and greater-than as that single byte,
\* unescaped; it prints those last five as \u0026, \u0027, \u003c, \u003d
\* and \u003e.
C21_PrintableAsciiRawButMarkup == AsciiStringPrinted => PrintedBy(PrintedButMarkup)

\* The String "<" has been printed as "\u003c"
C21_LessThanEscaped ==
    /\ pc = "printed"
    /\ v = MkString(<<60>>)
    /\ text = <<34, 92, 117, 48, 48, 51, 99, 34>>

---------------------------------------------------------------------------
(* C22: the serializer emits printable ASCII only *)

\* The code points of the well-formed UTF-8 string b, from the byte i on
RECURSIVE CodePointsFrom(_, _)
CodePointsFrom(b, i) ==
    IF i > Len(b) THEN <<>>
    ELSE IF b[i] < 128 THEN <<b[i]>> \o CodePointsFrom(b, i + 1)
    ELSE IF b[i] < 224
    THEN <<(b[i] - 192) * 64 + (b[i + 1] - 128)>> \o CodePointsFrom(b, i + 2)
    ELSE IF b[i] < 240
    THEN <<(b[i] - 224) * 4096 + (b[i + 1] - 128) * 64 + (b[i + 2] - 128)>>
         \o CodePointsFrom(b, i + 3)
    ELSE <<(b[i] - 240) * 262144 + (b[i + 1] - 128) * 4096
           + (b[i + 2] - 128) * 64 + (b[i + 3] - 128)>>
         \o CodePointsFrom(b, i + 4)

\* A backslash, a u and the four lower-case hexadecimal digits of u < 2^16
UnicodeEscape(u) ==
    <<92, 117>> \o [k \in 1..4 |->
        LET d == (u \div (16 ^ (4 - k))) % 16
        IN  IF d < 10 THEN 48 + d ELSE 97 + (d - 10)]

\* What C22 says is printed for the code point c, an A or beyond ASCII
PrintedEscaped(c) ==
    IF c < 128 THEN <<c>>
    ELSE IF c <= 65535 THEN UnicodeEscape(c)
    ELSE UnicodeEscape(55296 + ((c - 65536) \div 1024))
         \o UnicodeEscape(56320 + ((c - 65536) % 1024))

\* The text of the string literal for the well-formed string b
LiteralEscaped(b) ==
    <<34>>
    \o Flatten([n \in DOMAIN CodePointsFrom(b, 1) |->
                    PrintedEscaped(CodePointsFrom(b, 1)[n])])
    \o <<34>>

\* b is well-formed UTF-8 made of the letter A and of code points beyond
\* ASCII
IsLettersAndBeyond(b) ==
    /\ WellFormedFrom(b, 1)
    /\ \A i \in DOMAIN b : b[i] = 65 \/ b[i] >= 128

\* The string the program printed, as a payload or as a key, and the text
\* expected for it when the literal of b is lit(b)
PrintedPayload == IF v.type = "String" THEN v.string_value_ ELSE v.object_value[1].k

TextAround(lit) ==
    IF v.type = "String" THEN lit ELSE <<123>> \o lit \o <<58, 49, 125>>

\* C22: the text the serializer gives for a string payload or key, of
\* well-formed or malformed UTF-8, holds only bytes 0x20..0x7E; when the
\* string is well-formed, each code point beyond ASCII is there as \uHHHH,
\* and one above U+FFFF as two such escapes, the high surrogate first.
C22_OnlyPrintableAscii ==
    pc = "printed" =>
        /\ \A i \in DOMAIN text : text[i] \in 32..126
        /\ IsLettersAndBeyond(PrintedPayload)
              => text = TextAround(LiteralEscaped(PrintedPayload))

\* The malformed string A F4 90 80 80 has been printed as "A\ufffd"
C22_AboveRangeEscaped ==
    /\ pc = "printed"
    /\ v = MkString(<<65, 244, 144, 128, 128>>)
    /\ text = <<34, 65, 92, 117, 102, 102, 102, 100, 34>>

\* The key U+1D11E has been printed as the pair \ud834\udd1e
C22_KeyAsSurrogatePair ==
    /\ pc = "printed"
    /\ v.type = "Object"
    /\ PrintedPayload = <<240, 157, 132, 158>>
    /\ text = <<123, 34, 92, 117, 100, 56, 51, 52, 92, 117, 100, 100, 49, 101, 34,
                58, 49, 125>>

---------------------------------------------------------------------------
(* C23: the layout of toStringPretty and of toString *)

\* n times two spaces
Spaces(n) == [i \in 1..(2 * n) |-> 32]

\* The pretty text of j inside depth objects of more than one entry: an
\* object of more than one entry has each entry on a line of its own, two
\* spaces further in than the line the object starts on, and its closing
\* brace on a line of its own at the indentation of that line; every other
\* object and every array is on one line; a space follows each ':' and each
\* ',' of an array
RECURSIVE PrettyOf(_, _)
PrettyEntry(e, depth, multi, first) ==
    (IF first THEN <<>> ELSE <<44>>)
    \o (IF multi THEN <<10>> \o Spaces(depth + 1) ELSE <<>>)
    \o Stringify(e.k) \o <<58, 32>>
    \o PrettyOf(e.v, IF multi THEN depth + 1 ELSE depth)

PrettyOf(j, depth) ==
    IF j.type = "Array"
    THEN <<91>>
         \o Flatten([i \in DOMAIN j.array_value |->
                (IF i > 1 THEN <<44, 32>> ELSE <<>>)
                \o PrettyOf(j.array_value[i], depth)])
         \o <<93>>
    ELSE IF j.type = "Object"
    THEN <<123>>
         \o Flatten([i \in DOMAIN j.object_value |->
                PrettyEntry(j.object_value[i], depth,
                            Len(j.object_value) > 1, i = 1)])
         \o (IF Len(j.object_value) > 1 THEN <<10>> \o Spaces(depth) ELSE <<>>)
         \o <<125>>
    ELSE MarshalScalar(j)

\* text[i] is inside a string literal: an odd number of quotes comes before
InsideLiteral(i) == Cardinality({k \in 1..(i - 1) : text[k] = 34}) % 2 = 1

\* C23: toStringPretty puts each entry of an object of more than one entry
\* on its own line, indented by two spaces per enclosing object of more than
\* one entry (the object itself included), puts the closing brace on its own
\* line at the indentation of the enclosing level, keeps objects of no or one
\* entry and all arrays on one line, and writes a space after each ':' and
\* after each ',' of an array; toString writes no whitespace outside string
\* literals.
C23_PrettyLayout ==
    /\ pc = "pretty" => text = PrettyOf(v, 0)
    /\ pc = "printed" =>
          \A i \in DOMAIN text : text[i] \in {32, 9, 10, 13} => InsideLiteral(i)

\* The text of {"a":{"a":1,"b c":1},"b c":[1,1]} has been laid out on seven
\* lines: the two inner entries four spaces in, the array on one line
C23_NestedObjectLaidOut ==
    /\ pc = "pretty"
    /\ input = <<123, 34, 97, 34, 58, 123, 34, 97, 34, 58, 49, 44, 34, 98,
                 32, 99, 34, 58, 49, 125, 44, 34, 98, 32, 99, 34, 58, 91,
                 49, 44, 49, 93, 125>>
    /\ text = <<123, 10, 32, 32, 34, 97, 34, 58, 32, 123, 10, 32, 32, 32,
                32, 34, 97, 34, 58, 32, 49, 44, 10, 32, 32, 32, 32, 34, 98,
                32, 99, 34, 58, 32, 49, 10, 32, 32, 125, 44, 10, 32, 32,
                34, 98, 32, 99, 34, 58, 32, 91, 49, 44, 32, 49, 93, 10,
                125>>

\* ---------------------------------------------------------------------
\* Order of the entries of an Object (src/json.h:137, src/json.cpp:769-791)
\* ---------------------------------------------------------------------

MaxOrderKeys == 3

\* keys whose order tells the comparisons apart: a key and its extension,
\* an upper-case letter, a key of bytes above 0x7F, the empty key
OrderKeys == {<<97>>, <<97, 98>>, <<66>>, <<195, 169>>, <<>>}

\* {"k1":1,"k2":2,...}: the value of an entry is its position in the text
OrderText(ks) ==
    <<123>> \o Join([i \in DOMAIN ks |-> <<34>> \o ks[i] \o <<34, 58, 48 + i>>], <<44>>)
        \o <<125>>

\* Json j; j[k1] = 1; j[k2] = 2; ...
RECURSIVE StoreAll(_, _, _)
StoreAll(j, ks, i) ==
    IF i > Len(ks) THEN j
    ELSE StoreAll(Store(j, <<Key(ks[i])>>, MkLong([neg |-> FALSE, mag |-> <<i>>])).json,
                  ks, i + 1)

InitOrder ==
    /\ emplaceMoves \in BOOLEAN
    /\ res = NoResult
    /\ text = <<>>
    /\ res2 = NoResult
    /\ nops = 0
    /\ call = NoCall
    /\ mem = NoMem
    /\ \E ks \in SeqsUpTo(OrderKeys, MaxOrderKeys) :
          \/ input = OrderText(ks) /\ pc = "start" /\ v = Null
          \/ input = <<>> /\ pc = "build" /\ v = StoreAll(EmptyObject, ks, 1)

SpecOrder == InitOrder /\ [][NextParse]_vars

\* a comes before b in the byte-wise order: a is a proper prefix of b, or
\* the first byte in which they differ is the smaller one in a
BytesBefore(a, b) ==
    \E i \in 1..Len(b) :
        /\ \A n \in 1..(i - 1) : n <= Len(a) /\ a[n] = b[n]
        /\ \/ i = Len(a) + 1
           \/ i <= Len(a) /\ a[i] < b[i]

\* the entries of m, the n-th one being the one with n - 1 keys before its own
RankedEntries(m) ==
    [n \in 1..Len(m) |->
        m[CHOOSE i \in DOMAIN m :
             Cardinality({o \in DOMAIN m : BytesBefore(m[o].k, m[i].k)}) = n - 1]]

EntryPrinted(e) == Stringify(e.k) \o <<58>> \o toString(e.v)

\* C24: the serializer emits the entries of an Object in the ascending
\* byte-wise order of their keys, whatever the order in which the parsed text
\* gave them or operator[] inserted them.
C24_KeysAscending ==
    (pc = "printed" /\ v.type = "Object") =>
        /\ \A i, o \in DOMAIN v.object_value :
              i < o => BytesBefore(v.object_value[i].k, v.object_value[o].k)
        /\ text = <<123>>
              \o Join([n \in DOMAIN v.object_value |->
                          EntryPrinted(RankedEntries(v.object_value)[n])], <<44>>)
              \o <<125>>

\* the keys C3 A9, "ab", "B", given in this order with the values 1, 2, 3,
\* are printed as {"B":3,"ab":2,"\u00e9":1}
C24_ParsedDescending ==
    /\ pc = "printed"
    /\ input = OrderText(<<(<<195, 169>>), (<<97, 98>>), (<<66>>)>>)
    /\ text = <<123, 34, 66, 34, 58, 51, 44, 34, 97, 98, 34, 58, 50, 44,
                34, 92, 117, 48, 48, 101, 57, 34, 58, 49, 125>>

\* ---------------------------------------------------------------------
\* Allocator contexts (src/json.h:25-33, src/json.cpp:30-91, 303-553)
\*
\* A Json in memory is kept with what the accounting of blocks depends on:
\*   ctx    the JsonContext ctx_ refers to, as its place in JsonContexts
\*   type   type_
\*   str    string_value__.str, 0 for nullptr
\*   len    string_value__.len
\*   kids   the elements of array_value or the values of object_value
\* The heap is the blocks on loan (each with the allocator that handed it
\* out: 0 for the default functions, the userdata of a context with custom
\* ones), the number of the next block, the calls of each allocation
\* function so far, and the faults met.
\* ---------------------------------------------------------------------

\* two contexts with functions of their own, one with the default ones
JsonContexts ==
    <<[malloc_aligned |-> TRUE, free_aligned |-> TRUE, userdata |-> 1],
      [malloc_aligned |-> TRUE, free_aligned |-> TRUE, userdata |-> 2],
      [malloc_aligned |-> FALSE, free_aligned |-> FALSE, userdata |-> 0]>>

\* the choice of Malloc and Free between the functions of ctx and the defaults
Allocator(ctx) ==
    IF JsonContexts[ctx].malloc_aligned /\ JsonContexts[ctx].free_aligned
    THEN JsonContexts[ctx].userdata
    ELSE 0

Node(ctx, type, str, len, kids) ==
    [ctx |-> ctx, type |-> type, str |-> str, len |-> len, kids |-> kids]

\* Json(ctx)
NullNode(ctx) == Node(ctx, "Null", 0, 0, <<>>)

\* a variable of the program that holds no Json: not yet constructed, or destroyed
Dead == Node(0, "Dead", 0, 0, <<>>)

\* type_ >= JsonType::String
Owning == {"String", "Array", "Object"}

EmptyHeap == [live |-> {}, next |-> 1, mallocs |-> [a \in 0..2 |-> 0], faults |-> {}]

\* Malloc(ctx, size, 1): the allocation function returns nullptr for size 0
Malloc(h, ctx, size) ==
    LET by == Allocator(ctx)
    IN  IF size = 0
        THEN [h |-> [h EXCEPT !.mallocs[by] = @ + 1], ptr |-> 0]
        ELSE [h |-> [h EXCEPT !.mallocs[by] = @ + 1,
                              !.live = @ \cup {[ptr |-> h.next, by |-> by]},
                              !.next = @ + 1],
              ptr |-> h.next]

\* Free(ctx, ptr): nullptr is released to no effect; a block on loan from the
\* allocator of ctx goes back to it; a block on loan from another allocator,
\* or one that is no longer on loan, is a fault
Free(h, ctx, ptr) ==
    LET by == Allocator(ctx)
    IN  IF ptr = 0 THEN h
        ELSE IF [ptr |-> ptr, by |-> by] \in h.live
        THEN [h EXCEPT !.live = @ \ {[ptr |-> ptr, by |-> by]}]
        ELSE IF \E b \in h.live : b.ptr = ptr
        THEN [h EXCEPT !.faults = @ \cup {"cross-context free"}]
        ELSE [h EXCEPT !.faults = @ \cup {"double free"}]

RECURSIVE clear(_, _)
RECURSIVE DestroyAll(_, _, _)

\* Json::~Json
Destroy(h, n) == IF n.type \in Owning THEN clear(h, n).h ELSE h

\* ~vector, ~map: the destructor of every element
DestroyAll(h, kids, i) ==
    IF i > Len(kids) THEN h ELSE DestroyAll(Destroy(h, kids[i]), kids, i + 1)

\* Json::clear
clear(h, n) ==
    CASE n.type = "String" -> [h |-> Free(h, n.ctx, n.str), n |-> NullNode(n.ctx)]
      [] n.type \in {"Array", "Object"} ->
            [h |-> DestroyAll(h, n.kids, 1), n |-> NullNode(n.ctx)]
      [] OTHER -> [h |-> h, n |-> NullNode(n.ctx)]

\* if (type_ >= JsonType::String) clear();
Released(h, n) == IF n.type \in Owning THEN clear(h, n) ELSE [h |-> h, n |-> n]

RECURSIVE CopyConstruct(_, _)
RECURSIVE CopyAll(_, _, _, _)

\* std::vector<Json>(other.array_value), std::map<std::string, Json>(
\* other.object_value): the copy constructor of every element
CopyAll(h, kids, i, done) ==
    IF i > Len(kids) THEN [h |-> h, kids |-> done]
    ELSE LET c == CopyConstruct(h, kids[i])
         IN  CopyAll(c.h, kids, i + 1, Append(done, c.n))

\* Json::Json(const Json& other): ctx_(other.ctx_)
CopyConstruct(h, other) ==
    CASE other.type = "String" ->
            LET m == Malloc(h, other.ctx, other.len)
            IN  [h |-> m.h, n |-> Node(other.ctx, "String", m.ptr, other.len, <<>>)]
      [] other.type \in {"Array", "Object"} ->
            LET c == CopyAll(h, other.kids, 1, <<>>)
            IN  [h |-> c.h, n |-> Node(other.ctx, other.type, 0, 0, c.kids)]
      [] OTHER -> [h |-> h, n |-> Node(other.ctx, other.type, 0, 0, <<>>)]

\* Json::operator=(const Json& other), this and other being two values
CopyAssign(h, this, other) ==
    LET r == Released(h, this)
    IN  CASE other.type = "String" ->
                LET m == Malloc(r.h, this.ctx, other.len)
                IN  [h |-> m.h, n |-> Node(this.ctx, "String", m.ptr, other.len, <<>>)]
          [] other.type \in {"Array", "Object"} ->
                LET c == CopyAll(r.h, other.kids, 1, <<>>)
                IN  [h |-> c.h, n |-> Node(this.ctx, other.type, 0, 0, c.kids)]
          [] OTHER -> [h |-> r.h, n |-> Node(this.ctx, other.type, 0, 0, <<>>)]

\* a move constructor that leaves other as it was
MoveConstruct_LeavesSource(other) == [n |-> other, other |-> other]

\* Json::Json(Json&& other): ctx_(other.ctx_); other is left Null
MoveConstruct(other) == [n |-> other, other |-> NullNode(other.ctx)]

\* a move assignment that takes the block of other whatever the contexts
MoveAssign_AlwaysTransfers(h, this, other) ==
    LET r == Released(h, this)
    IN  [h |-> r.h,
         n |-> Node(this.ctx, other.type, other.str, other.len, other.kids),
         other |-> NullNode(other.ctx)]

\* Json::operator=(Json&& other), this and other being two values
MoveAssign(h, this, other) ==
    LET r == Released(h, this)
    IN  CASE other.type = "String" ->
                IF other.ctx = this.ctx
                THEN [h |-> r.h,
                      n |-> Node(this.ctx, "String", other.str, other.len, <<>>),
                      other |-> NullNode(other.ctx)]
                ELSE LET m == Malloc(r.h, this.ctx, other.len)
                     IN  [h |-> Free(m.h, other.ctx, other.str),
                          n |-> Node(this.ctx, "String", m.ptr, other.len, <<>>),
                          other |-> NullNode(other.ctx)]
          [] OTHER ->
                [h |-> r.h,
                 n |-> Node(this.ctx, other.type, 0, 0, other.kids),
                 other |-> NullNode(other.ctx)]

\* Json(ctx, "s"): strlen("s") + 1 bytes
StringNode(h, ctx) ==
    LET m == Malloc(h, ctx, 2)
    IN  [h |-> m.h, n |-> Node(ctx, "String", m.ptr, 2, <<>>)]

\* operator[](0) when kind is "Array", operator[]("a") when it is "Object":
\* this becomes a container of the kind when it is not one, and gets the
\* element Json{ctx_} when it has none
Select(h, this, kind) ==
    LET r == IF this.type # kind
             THEN [h |-> Released(h, this).h, n |-> Node(this.ctx, kind, 0, 0, <<>>)]
             ELSE [h |-> h, n |-> this]
    IN  IF r.n.kids = <<>>
        THEN [h |-> r.h, n |-> [r.n EXCEPT !.kids = <<NullNode(this.ctx)>>]]
        ELSE r

\* What Json::parse(ctx, s, len) leaves in memory for the value j it made:
\* every Json of the tree was constructed as Json value(ctx) or Json key(ctx)
\* and moved into its place, and a string was placed as a std::string, with
\* string_value__ left as it was
RECURSIVE NodeOf(_, _)
NodeOf(ctx, j) ==
    CASE j.type = "Array" ->
            Node(ctx, "Array", 0, 0,
                 [i \in DOMAIN j.array_value |-> NodeOf(ctx, j.array_value[i])])
      [] j.type = "Object" ->
            Node(ctx, "Object", 0, 0,
                 [i \in DOMAIN j.object_value |-> NodeOf(ctx, j.object_value[i].v)])
      [] OTHER -> Node(ctx, j.type, 0, 0, <<>>)

\* ---------------------------------------------------------------------
\* The allocation program: two variables x1, x2 of type Json, constructed,
\* copied, moved, assigned, indexed, parsed into and destroyed in any order.
\* An assignment is between two values neither of which is inside the other.
\* ---------------------------------------------------------------------

MaxAllocOps == 3

\* the variables x1, x2 of the program
Vals == {1, 2}

\* "s", ["s"], {"a":"s"}, 1
AllocTexts ==
    {<<34, 115, 34>>, <<91, 34, 115, 34, 93>>,
     <<123, 34, 97, 34, 58, 34, 115, 34, 125>>, <<49>>}

\* the place assigned to: x itself, x[0] or x["a"]
Places == {"self", "Array", "Object"}

InitAlloc ==
    /\ input = <<>>
    /\ emplaceMoves = TRUE
    /\ pc = "alloc"
    /\ res = NoResult
    /\ v = Null
    /\ text = <<>>
    /\ res2 = NoResult
    /\ nops = 0
    /\ call = NoCall
    /\ mem = [vals |-> [i \in Vals |-> Dead], heap |-> EmptyHeap,
              last |-> [op |-> "none", ctx |-> 0, mallocs |-> 0, arg |-> <<>>]]

\* The statement named op, made with context ctx and argument arg (the text
\* parsed, the variable moved from), has left the variables as vals and the
\* heap as h
AllocStep(vals, h, op, ctx, arg) ==
    /\ mem' = [vals |-> vals, heap |-> h,
               last |-> [op |-> op, ctx |-> ctx, arg |-> arg,
                         mallocs |-> h.mallocs[Allocator(ctx)]
                                       - mem.heap.mallocs[Allocator(ctx)]]]
    /\ nops' = nops + 1
    /\ UNCHANGED <<input, emplaceMoves, pc, res, v, text, res2, call>>

\* place = other;  with place being x, x[0] or x["a"]
CopyInto(h, x, place, other) ==
    IF place = "self" THEN CopyAssign(h, x, other)
    ELSE LET s == Select(h, x, place)
             a == CopyAssign(s.h, s.n.kids[1], other)
         IN  [h |-> a.h, n |-> [s.n EXCEPT !.kids[1] = a.n]]

\* place = std::move(other);
MoveInto(h, x, place, other) ==
    IF place = "self" THEN MoveAssign(h, x, other)
    ELSE LET s == Select(h, x, place)
             a == MoveAssign(s.h, s.n.kids[1], other)
         IN  [h |-> a.h, n |-> [s.n EXCEPT !.kids[1] = a.n], other |-> a.other]

\* Json x(ctx);  Json x(ctx, 1);  Json x(ctx, "s");
AllocConstruct ==
    /\ pc = "alloc" /\ nops < MaxAllocOps
    /\ \E i \in Vals, ctx \in DOMAIN JsonContexts, kind \in {"Null", "Long", "String"} :
          /\ mem.vals[i] = Dead
          /\ LET r == IF kind = "String" THEN StringNode(mem.heap, ctx)
                      ELSE [h |-> mem.heap, n |-> Node(ctx, kind, 0, 0, <<>>)]
             IN  AllocStep([mem.vals EXCEPT ![i] = r.n], r.h, "construct", ctx, <<>>)

\* Json x(y);
AllocCopyConstruct ==
    /\ pc = "alloc" /\ nops < MaxAllocOps
    /\ \E i, o \in Vals :
          /\ mem.vals[i] = Dead /\ mem.vals[o] # Dead
          /\ LET r == CopyConstruct(mem.heap, mem.vals[o])
             IN  AllocStep([mem.vals EXCEPT ![i] = r.n], r.h, "copy", r.n.ctx, <<>>)

\* Json x(std::move(y));
AllocMoveConstruct ==
    /\ pc = "alloc" /\ nops < MaxAllocOps
    /\ \E i, o \in Vals :
          /\ mem.vals[i] = Dead /\ mem.vals[o] # Dead
          /\ LET r == MoveConstruct(mem.vals[o])
             IN  AllocStep([mem.vals EXCEPT ![i] = r.n, ![o] = r.other], mem.heap,
                           "move", r.n.ctx, <<o>>)

\* Json x = Json::parse(ctx, s, len).second;
AllocParse ==
    /\ pc = "alloc" /\ nops < MaxAllocOps
    /\ \E i \in Vals, ctx \in DOMAIN JsonContexts, s \in AllocTexts :
          /\ mem.vals[i] = Dead
          /\ AllocStep([mem.vals EXCEPT ![i] = NodeOf(ctx, PublicParse(emplaceMoves, s).value)],
                       mem.heap, "parse", ctx, s)

\* x = y;  x[0] = y;  x["a"] = y;
AllocCopyAssign ==
    /\ pc = "alloc" /\ nops < MaxAllocOps
    /\ \E i, o \in Vals, place \in Places :
          /\ i # o /\ mem.vals[i] # Dead /\ mem.vals[o] # Dead
          /\ LET r == CopyInto(mem.heap, mem.vals[i], place, mem.vals[o])
             IN  AllocStep([mem.vals EXCEPT ![i] = r.n], r.h, "copy-assign",
                           mem.vals[i].ctx, <<>>)

\* x = std::move(y);  x[0] = std::move(y);  x["a"] = std::move(y);
AllocMoveAssign ==
    /\ pc = "alloc" /\ nops < MaxAllocOps
    /\ \E i, o \in Vals, place \in Places :
          /\ i # o /\ mem.vals[i] # Dead /\ mem.vals[o] # Dead
          /\ LET r == MoveInto(mem.heap, mem.vals[i], place, mem.vals[o])
             IN  AllocStep([mem.vals EXCEPT ![i] = r.n, ![o] = r.other], r.h,
                           "move-assign", mem.vals[i].ctx, <<o>>)

\* x = Json(ctx, "s");  x[0] = Json(ctx, "s");  x["a"] = Json(ctx, "s");
\* the temporary is moved from and destroyed
AllocStore ==
    /\ pc = "alloc" /\ nops < MaxAllocOps
    /\ \E i \in Vals, ctx \in DOMAIN JsonContexts, place \in Places :
          /\ mem.vals[i] # Dead
          /\ LET t == StringNode(mem.heap, ctx)
                 r == MoveInto(t.h, mem.vals[i], place, t.n)
             IN  AllocStep([mem.vals EXCEPT ![i] = r.n], Destroy(r.h, r.other),
                           "store", mem.vals[i].ctx, <<>>)

\* the end of the scope of x
AllocDestroy ==
    /\ pc = "alloc"
    /\ \E i \in Vals :
          /\ mem.vals[i] # Dead
          /\ mem' = [mem EXCEPT !.vals[i] = Dead,
                                !.heap = Destroy(mem.heap, mem.vals[i]),
                                !.last = [op |-> "destroy", ctx |-> mem.vals[i].ctx,
                                          mallocs |-> 0, arg |-> <<>>]]
          /\ UNCHANGED <<input, emplaceMoves, pc, res, v, text, res2, nops, call>>

NextAlloc ==
    \/ AllocConstruct \/ AllocCopyConstruct \/ AllocMoveConstruct \/ AllocParse
    \/ AllocCopyAssign \/ AllocMoveAssign \/ AllocStore \/ AllocDestroy

SpecAlloc == InitAlloc /\ [][NextAlloc]_vars

\* C25: after any sequence of public operations, every element of an Array
\* and every entry value of an Object refers to the same allocator context as
\* its parent, also after a container built under one context is copy- or
\* move-assigned to a value that carries a different context.
RECURSIVE SameContextBelow(_)
SameContextBelow(n) ==
    \A i \in DOMAIN n.kids : n.kids[i].ctx = n.ctx /\ SameContextBelow(n.kids[i])

C25_ChildrenShareContext ==
    pc = "alloc" => \A i \in Vals : SameContextBelow(mem.vals[i])

\* Json x(ctx1); Json y = parse(ctx2, ["s"]); x = y;  has left x under the
\* first context with an element under the second
C25_CopiedElementKeepsSourceContext ==
    /\ pc = "alloc"
    /\ mem.last.op = "copy-assign"
    /\ mem.vals[1].ctx = 1 /\ mem.vals[1].type = "Array"
    /\ mem.vals[1].kids[1].ctx = 2
    /\ mem.vals[2].ctx = 2

\* C26: after any sequence of constructions, copies, moves, assignments
\* between two values, index operations and destructions, no block is freed
\* twice or through another allocator than the one it came from, and when
\* all values are destroyed no block is left on loan.
\* the block of every String below n is on loan from the allocator of the
\* context of that String
RECURSIVE OwnsItsBlocks(_, _)
OwnsItsBlocks(h, n) ==
    /\ (n.type = "String" /\ n.str # 0)
          => [ptr |-> n.str, by |-> Allocator(n.ctx)] \in h.live
    /\ \A i \in DOMAIN n.kids : OwnsItsBlocks(h, n.kids[i])

C26_BlocksReleasedOnce ==
    pc = "alloc" =>
        /\ mem.heap.faults = {}
        /\ \A i \in Vals : OwnsItsBlocks(mem.heap, mem.vals[i])
        /\ (\A i \in Vals : mem.vals[i] = Dead) => mem.heap.live = {}

\* Json x(ctx1, "s"); Json y(ctx2); y = std::move(x);  has left y with a
\* block of its own context, the block of x released and x Null
C26_MovedAcrossContexts ==
    /\ pc = "alloc"
    /\ mem.last.op = "move-assign"
    /\ mem.vals[1] = NullNode(1)
    /\ mem.vals[2] = Node(2, "String", 2, 2, <<>>)
    /\ mem.heap.live = {[ptr |-> 2, by |-> 2]}

\* two values destroyed after three statements that took one block from each
\* of the two contexts: both blocks are back
C26_AllDestroyedAfterMove ==
    /\ pc = "alloc"
    /\ mem.last.op = "destroy"
    /\ \A i \in Vals : mem.vals[i] = Dead
    /\ nops = MaxAllocOps
    /\ mem.heap.next = 3
    /\ mem.heap.mallocs[1] = 1 /\ mem.heap.mallocs[2] = 1
    /\ mem.heap.live = {}

\* C27: parsing an input that contains a non-empty string under a context
\* with functions of its own calls the alloc_fn of that context for the
\* storage of the string.
C27_ParseAllocatesThroughContext ==
    (/\ pc = "alloc"
     /\ mem.last.op = "parse"
     /\ \E i \in DOMAIN mem.last.arg : mem.last.arg[i] = 34
     /\ JsonContexts[mem.last.ctx].malloc_aligned
     /\ JsonContexts[mem.last.ctx].free_aligned)
        => mem.last.mallocs > 0

\* Json x = Json::parse(ctx1, "\"s\"", 3).second;  has left x a String of the
\* first context without a block, and no function of that context was called
C27_ParsedWithoutAllocation ==
    /\ pc = "alloc"
    /\ mem.last = [op |-> "parse", ctx |-> 1, arg |-> <<34, 115, 34>>, mallocs |-> 0]
    /\ mem.vals[1] = Node(1, "String", 0, 0, <<>>)
    /\ mem.heap.mallocs[1] = 0

\* ---------------------------------------------------------------------
\* Punctuation (src/json.cpp:884-896, 957-973, 1103-1153)
\*
\* The texts are tokens separated by one space: a lead that brings the
\* reading to a place of the grammar, inside nothing, an array or an object;
\* then one token, or a small array or object; then a tail.
\* ---------------------------------------------------------------------

MaxTail == 1

\* [  ]  {  }  ,  :  "k"  1  null  true  false
PunctTokens ==
    {<<91>>, <<93>>, <<123>>, <<125>>, <<44>>, <<58>>, <<34, 107, 34>>, <<49>>,
     <<110, 117, 108, 108>>, <<116, 114, 117, 101>>, <<102, 97, 108, 115, 101>>}

\* nothing;  [  {  [ 1  { "k" : 1  [ 1 ,  { "k" : 1 ,  { "k"  { "k" :  1
PunctLeads ==
    {<<>>, <<(<<91>>)>>, <<(<<123>>)>>, <<(<<91>>), (<<49>>)>>,
     <<(<<123>>), (<<34, 107, 34>>), (<<58>>), (<<49>>)>>,
     <<(<<91>>), (<<49>>), (<<44>>)>>,
     <<(<<123>>), (<<34, 107, 34>>), (<<58>>), (<<49>>), (<<44>>)>>,
     <<(<<123>>), (<<34, 107, 34>>)>>,
     <<(<<123>>), (<<34, 107, 34>>), (<<58>>)>>,
     <<(<<49>>)>>}

\* nothing;  [  { "k" :
PunctAround ==
    {<<>>, <<(<<91>>)>>, <<(<<123>>), (<<34, 107, 34>>), (<<58>>)>>}

\* one token;  [ ]  { }  [ 1 ]
PunctMiddles ==
    {<<t>> : t \in PunctTokens}
    \cup {<<(<<91>>), (<<93>>)>>, <<(<<123>>), (<<125>>)>>,
          <<(<<91>>), (<<49>>), (<<93>>)>>}

PunctTails(n) == SeqsUpTo({<<93>>, <<125>>, <<44>>, <<49>>}, n)

PunctInputs(n) ==
    {Join(around \o lead \o middle \o tail, <<32>>) :
        around \in PunctAround, lead \in PunctLeads, middle \in PunctMiddles,
        tail \in PunctTails(n)}

InitPunct == InitParse(PunctInputs(MaxTail))

SpecPunct == InitPunct /\ [][NextParse]_vars

\* The tokens of a text of PunctInputs from index i on, each as its first byte
RECURSIVE PunctTokensFrom(_, _, _)
PunctTokensFrom(s, i, fresh) ==
    IF i > Len(s) THEN <<>>
    ELSE IF s[i] = 32 THEN PunctTokensFrom(s, i + 1, TRUE)
    ELSE IF fresh THEN <<s[i]>> \o PunctTokensFrom(s, i + 1, FALSE)
    ELSE PunctTokensFrom(s, i + 1, FALSE)

IsScalarToken(t) == t \in {49, 110, 116, 102}

IsValueToken(t) == IsScalarToken(t) \/ t \in {34, 91, 123}

\* The place reached when a value has ended inside the containers of stack
AfterValue(stack) ==
    IF stack = <<>> THEN "done"
    ELSE IF stack[Len(stack)] = 91 THEN "elem" ELSE "entry"

\* The JSON grammar read token by token.  The place is one of
\*   "top"     nothing read            "done"    the value of the text read
\*   "open["   directly after [        "open{"   directly after {
\*   "elem"    after an element        "entry"   after an entry
\*   "comma["  after a comma of an array
\*   "comma{"  after a comma of an object
\*   "key"     after a key             "colon"   after a colon
\* and stack holds the openers of the containers not yet closed.  The
\* reading stops at the first token the grammar has no use for: at is its
\* index, 0 when every token was read.
RECURSIVE Reading(_, _, _, _)
Reading(ts, i, stack, place) ==
    IF i > Len(ts) THEN [at |-> 0, place |-> place, stack |-> stack]
    ELSE LET t == ts[i]
             wantsValue == place \in {"top", "open[", "comma[", "colon"}
             wantsKey == place \in {"open{", "comma{"}
             stop == [at |-> i, place |-> place, stack |-> stack]
         IN  CASE wantsValue /\ (IsScalarToken(t) \/ t = 34) ->
                    Reading(ts, i + 1, stack, AfterValue(stack))
               [] wantsValue /\ t = 91 -> Reading(ts, i + 1, Append(stack, 91), "open[")
               [] wantsValue /\ t = 123 -> Reading(ts, i + 1, Append(stack, 123), "open{")
               [] wantsKey /\ t = 34 -> Reading(ts, i + 1, stack, "key")
               [] place = "key" /\ t = 58 -> Reading(ts, i + 1, stack, "colon")
               [] place = "elem" /\ t = 44 -> Reading(ts, i + 1, stack, "comma[")
               [] place = "entry" /\ t = 44 -> Reading(ts, i + 1, stack, "comma{")
               [] place \in {"open[", "elem"} /\ t = 93 ->
                    Reading(ts, i + 1, SubSeq(stack, 1, Len(stack) - 1),
                            AfterValue(SubSeq(stack, 1, Len(stack) - 1)))
               [] place \in {"open{", "entry"} /\ t = 125 ->
                    Reading(ts, i + 1, SubSeq(stack, 1, Len(stack) - 1),
                            AfterValue(SubSeq(stack, 1, Len(stack) - 1)))
               [] OTHER -> stop

PunctTokensOf(s) == PunctTokensFrom(s, 1, TRUE)

\* the reading of the text at hand
Read == Reading(PunctTokensOf(input), 1, <<>>, "top")

\* the token the reading stopped at, 0 when it read them all
Stopper == IF Read.at = 0 THEN 0 ELSE PunctTokensOf(input)[Read.at]

\* What the parse call made where the value of the text has ended returns
StatusAfterValue ==
    Parse(emplaceMoves, input, Parse(emplaceMoves, input, 1, 0, DEPTH, Null).p,
          0, DEPTH, Null).status

\* C28: a comma is accepted only directly after a complete array element or
\* object entry, and in every other place (top level, directly after [ or {,
\* after another comma, after a key or a colon) parse returns
\* unexpected_comma; a colon is accepted only directly after an object key,
\* and in every other place parse returns unexpected_colon.  After the value
\* of the text has ended it is the parse call made there that returns the
\* status.
C28_CommaAndColonPlaces ==
    /\ (pc # "start" /\ Stopper \in {44, 58}) =>
          LET status == IF Stopper = 44 THEN "unexpected_comma" ELSE "unexpected_colon"
          IN  /\ Read.place # "done" => res.status = status
              /\ Read.place = "done" => StatusAfterValue = status
    /\ (pc # "start" /\ Stopper = 0) =>
          res.status \notin {"unexpected_comma", "unexpected_colon"}

\* [ 1 , ,  has been refused with unexpected_comma at its second comma
C28_CommaAfterComma ==
    /\ pc = "parsed"
    /\ input = <<91, 32, 49, 32, 44, 32, 44>>
    /\ Read.at = 4 /\ Read.place = "comma["
    /\ res.status = "unexpected_comma"

\* [ { "k" : 1 :  has been refused with unexpected_colon at its second colon
C28_ColonAfterEntry ==
    /\ pc = "parsed"
    /\ input = <<91, 32, 123, 32, 34, 107, 34, 32, 58, 32, 49, 32, 58>>
    /\ Read.place = "entry"
    /\ res.status = "unexpected_colon"

\* The tokens from index i on begin with one well-formed value
BeginsWithValue(ts, i) ==
    \E n \in i..Len(ts) :
        LET r == Reading(SubSeq(ts, i, n), 1, <<>>, "top")
        IN  r.at = 0 /\ r.place = "done"

\* C29: in an object, a well-formed token that is not a string (number,
\* literal, array, object) in the place of a key, the first one or one after
\* a comma, returns object_key_must_be_string; a value token that follows a
\* key without a colon returns missing_colon; an array element, or a string
\* key, that follows a complete element or entry without a comma returns
\* missing_comma.
C29_KeyColonCommaStatus ==
    (pc # "start" /\ Stopper # 0) =>
        /\ (/\ Read.place \in {"open{", "comma{"}
            /\ IsValueToken(Stopper)
            /\ BeginsWithValue(PunctTokensOf(input), Read.at))
              => res.status = "object_key_must_be_string"
        /\ (Read.place = "key" /\ IsValueToken(Stopper))
              => res.status = "missing_colon"
        /\ (Read.place = "elem" /\ IsValueToken(Stopper))
              => res.status = "missing_comma"
        /\ (Read.place = "entry" /\ Stopper = 34)
              => res.status = "missing_comma"

\* { "k" : 1 , [ 1 ]  has been refused with object_key_must_be_string
C29_ArrayAsSecondKey ==
    /\ pc = "parsed"
    /\ input = <<123, 32, 34, 107, 34, 32, 58, 32, 49, 32, 44, 32, 91, 32, 49, 32, 93>>
    /\ Read.at = 6 /\ Read.place = "comma{"
    /\ res.status = "object_key_must_be_string"

\* { "k" null  has been refused with missing_colon
C29_LiteralAfterKey ==
    /\ pc = "parsed"
    /\ input = <<123, 32, 34, 107, 34, 32, 110, 117, 108, 108>>
    /\ Read.place = "key"
    /\ res.status = "missing_colon"

\* { "k" : 1 "k"  has been refused with missing_comma
C29_KeyAfterEntry ==
    /\ pc = "parsed"
    /\ input = <<123, 32, 34, 107, 34, 32, 58, 32, 49, 32, 34, 107, 34>>
    /\ Read.place = "entry"
    /\ res.status = "missing_comma"

\* the innermost container not yet closed where the reading stopped: 91 for
\* an array, 123 for an object, 0 for none
Innermost == IF Read.stack = <<>> THEN 0 ELSE Read.stack[Len(Read.stack)]

\* the status of the closer t
EndStatus(t) == IF t = 93 THEN "unexpected_end_of_array" ELSE "unexpected_end_of_object"

\* the status where the reading stopped: the one parse returned, or, after
\* the value of the text has ended, the one the parse call made there returns
StatusAtStop == IF Read.place = "done" THEN StatusAfterValue ELSE res.status

\* the text is one container and the token that closes it, of its own kind,
\* is the last one
EndsWithOwnCloser ==
    LET ts == PunctTokensOf(input)
        r == Reading(SubSeq(ts, 1, Len(ts) - 1), 1, <<>>, "top")
    IN  /\ Len(ts) >= 2
        /\ r.at = 0 /\ Len(r.stack) = 1
        /\ \/ r.stack[1] = 91 /\ ts[Len(ts)] = 93
           \/ r.stack[1] = 123 /\ ts[Len(ts)] = 125

\* ] with no container open, or with an object as the innermost one, returns
\* unexpected_end_of_array; } with none, or with an array, returns
\* unexpected_end_of_object
StrayCloserRefused ==
    (pc # "start" /\ Stopper \in {93, 125}
       /\ Innermost # (IF Stopper = 93 THEN 91 ELSE 123))
        => StatusAtStop = EndStatus(Stopper)

\* C30 as stated: ] with no open container returns unexpected_end_of_array
\* and } with none unexpected_end_of_object; ] whose innermost open container
\* is an object and } whose innermost is an array are rejected with the same
\* two codes; ] inside an array and } inside an object end that container,
\* and the container parses with success.
C30_ClosersEndTheirContainer ==
    /\ StrayCloserRefused
    /\ (pc # "start" /\ EndsWithOwnCloser) => res.status = "success"

\* C30 amended: a stray closer is refused as stated; ] directly after [ or
\* after a complete element, and } directly after { or after a complete
\* entry, end the container, which parses with success; ] after a comma of
\* its array returns unexpected_end_of_array, and } after a comma, a key or a
\* colon of its object returns unexpected_end_of_object.
C30_ClosersEndTheirContainerInPlace ==
    /\ StrayCloserRefused
    /\ (pc # "start" /\ EndsWithOwnCloser /\ Stopper = 0)
          => /\ res.status = "success"
             /\ res.value.type = IF PunctTokensOf(input)[1] = 91 THEN "Array" ELSE "Object"
    /\ (pc # "start" /\ Stopper \in {93, 125}
          /\ Innermost = (IF Stopper = 93 THEN 91 ELSE 123))
          => /\ Read.place \in {"comma[", "comma{", "key", "colon"}
             /\ res.status = EndStatus(Stopper)

\* [ 1 , ]  has been refused with unexpected_end_of_array
C30_CloserAfterComma ==
    /\ pc = "parsed"
    /\ input = <<91, 32, 49, 32, 44, 32, 93>>
    /\ EndsWithOwnCloser
    /\ Read.at = 4 /\ Read.place = "comma["
    /\ res.status = "unexpected_end_of_array"

\* [ 1 }  has been refused with unexpected_end_of_object
C30_BraceInsideArray ==
    /\ pc = "parsed"
    /\ input = <<91, 32, 49, 32, 125>>
    /\ Innermost = 91
    /\ res.status = "unexpected_end_of_object"

\* ---------------------------------------------------------------------
\* Truncated documents (src/json.cpp:1164-1186, 1414-1416)
\* ---------------------------------------------------------------------

MaxTruncNest == 1

\* ["a\n\u00e9\x41" then the raw bytes C3 A9, then ",1]
\* {"k":[true,-1.5,null],"\\":{}}
\* "a\tb" with E2 82 AC before the closing quote
\* [ [], {"a":"F0 9F 98 80" } ]
TruncPayloads ==
    {
     <<91, 34, 97, 92, 110, 92, 117, 48, 48, 101, 57, 92, 120, 52, 49, 195, 169, 34, 44, 49, 93>>,
     <<123, 34, 107, 34, 58, 91, 116, 114, 117, 101, 44, 45, 49, 46, 53, 44, 110, 117, 108, 108, 93, 44, 34, 92, 92, 34, 58, 123, 125, 125>>,
     <<34, 97, 92, 116, 98, 226, 130, 172, 34>>,
     <<91, 32, 91, 93, 44, 32, 123, 34, 97, 34, 58, 34, 240, 159, 152, 128, 34, 32, 125, 32, 93>>}

\* the payloads inside 0..n arrays
TruncDocs(n) ==
    {Rep(<<91>>, k) \o d \o Rep(<<93>>, k) : k \in 0..n, d \in TruncPayloads}

\* every proper prefix of every document
TruncInputs(n) ==
    UNION {{SubSeq(d, 1, m) : m \in 0..(Len(d) - 1)} : d \in TruncDocs(n)}

InitTrunc == InitParse(TruncInputs(MaxTruncNest))

\* no text of the family parses, so parse is the one step taken
SpecTrunc == InitTrunc /\ [][DoParse]_vars

\* a complete literal or number: true, false, null, or an optional minus,
\* digits, and optionally a point and digits
IsCompleteScalar(tok) ==
    \/ tok \in {<<116, 114, 117, 101>>, <<102, 97, 108, 115, 101>>,
                <<110, 117, 108, 108>>}
    \/ /\ tok # <<>>
       /\ tok[Len(tok)] \in 48..57
       /\ \A i \in DOMAIN tok :
             \/ tok[i] \in 48..57
             \/ tok[i] = 45 /\ i = 1
             \/ tok[i] = 46 /\ i > 1 /\ tok[i - 1] \in 48..57

\* Where the prefix s of a well-formed document ends, read from index i:
\*   depth   the containers still open
\*   mode    "between"  after a structural byte, a space or a closing quote
\*           "scalar"   in or after a number or literal, tok its bytes so far
\*           "string"   in a string body, after a complete character or escape
\*           "escape"   right after a backslash
\*           "partial"  inside a \u or \x escape or a UTF-8 sequence, left
\*                      bytes of it still to come
RECURSIVE CutScan(_, _, _, _, _, _)
CutScan(s, i, depth, mode, tok, left) ==
    IF i > Len(s) THEN [depth |-> depth, mode |-> mode, tok |-> tok]
    ELSE LET c == s[i] IN
         CASE mode = "partial" ->
                CutScan(s, i + 1, depth, IF left = 1 THEN "string" ELSE "partial",
                        <<>>, left - 1)
           [] mode = "escape" ->
                IF c = 117 THEN CutScan(s, i + 1, depth, "partial", <<>>, 4)
                ELSE IF c = 120 THEN CutScan(s, i + 1, depth, "partial", <<>>, 2)
                ELSE CutScan(s, i + 1, depth, "string", <<>>, 0)
           [] mode = "string" ->
                IF c = 34 THEN CutScan(s, i + 1, depth, "between", <<>>, 0)
                ELSE IF c = 92 THEN CutScan(s, i + 1, depth, "escape", <<>>, 0)
                ELSE IF c >= 240 THEN CutScan(s, i + 1, depth, "partial", <<>>, 3)
                ELSE IF c >= 224 THEN CutScan(s, i + 1, depth, "partial", <<>>, 2)
                ELSE IF c >= 192 THEN CutScan(s, i + 1, depth, "partial", <<>>, 1)
                ELSE CutScan(s, i + 1, depth, "string", <<>>, 0)
           [] c = 34 -> CutScan(s, i + 1, depth, "string", <<>>, 0)
           [] c \in {91, 123} -> CutScan(s, i + 1, depth + 1, "between", <<>>, 0)
           [] c \in {93, 125} -> CutScan(s, i + 1, depth - 1, "between", <<>>, 0)
           [] c \in {44, 58, 32} -> CutScan(s, i + 1, depth, "between", <<>>, 0)
           [] OTHER ->
                CutScan(s, i + 1, depth, "scalar",
                        (IF mode = "scalar" THEN tok ELSE <<>>) \o <<c>>, 0)

\* where the text at hand ends
Cut == CutScan(input, 1, 0, "between", <<>>, 0)

\* the input ends with a container open, outside a string and outside an
\* unfinished number or literal
CutBetweenTokens ==
    /\ Cut.depth > 0
    /\ \/ Cut.mode = "between"
       \/ Cut.mode = "scalar" /\ IsCompleteScalar(Cut.tok)

C31_CutAfterBackslash ==
    /\ pc = "parsed"
    /\ input = <<123, 34, 107, 34, 58, 91, 116, 114, 117, 101, 44, 45, 49, 46, 53,
                 44, 110, 117, 108, 108, 93, 44, 34, 92>>
    /\ Cut.mode = "escape"
    /\ res.status = "unexpected_end_of_string"

\* {"k":[true,-1.5  has been refused with unexpected_eof
C31_CutAfterNumber ==
    /\ pc = "parsed"
    /\ input = <<123, 34, 107, 34, 58, 91, 116, 114, 117, 101, 44, 45, 49, 46, 53>>
    /\ CutBetweenTokens
    /\ res.status = "unexpected_eof"

\* ---------------------------------------------------------------------
\* Backslash escapes (src/json.cpp:1182-1277)
\* ---------------------------------------------------------------------

MaxHexTail == 2

MaxUnicodeTail == 4

\* the bytes after the backslash:  " \ / b f n r t x u  and  a 0 U X ' LF
EscapeLetters ==
    {34, 92, 47, 98, 102, 110, 114, 116, 120, 117, 97, 48, 85, 88, 39, 10}

\* what follows the letter: 0 1 2 4 7 E F e G after most letters,
\* 0 4 A G after u
EscapeTails(c, n, m) ==
    IF c = 117 THEN SeqsUpTo({48, 52, 65, 71}, m)
    ELSE SeqsUpTo({48, 49, 50, 52, 55, 69, 70, 101, 71}, n)

\* a string literal holding one escape: an optional a, the backslash, the
\* letter, what follows it, and the closing quote or the end of the input
EscapeInputs(n, m) ==
    UNION {{<<34>> \o pre \o <<92, c>> \o tail \o closing :
               pre \in {<<>>, <<97>>}, tail \in EscapeTails(c, n, m),
               closing \in {<<>>, <<34>>}} : c \in EscapeLetters}

InitEscape == InitParse(EscapeInputs(MaxHexTail, MaxUnicodeTail))

SpecEscape == InitEscape /\ [][NextParse]_vars

\* the value of a hexadecimal digit, -1 for any other byte
HexValue(c) ==
    IF c \in 48..57 THEN c - 48
    ELSE IF c \in 65..70 THEN c - 55
    ELSE IF c \in 97..102 THEN c - 87
    ELSE -1

\* the first k bytes of t are hexadecimal digits
HexDigits(t, k) == Len(t) >= k /\ \A i \in 1..k : HexValue(t[i]) # -1

\* the parts of the text at hand: what precedes the backslash, the escaped
\* letter, and what follows it up to the end of the input
EscapePre == IF input[2] = 92 THEN <<>> ELSE <<input[2]>>

EscapeLetter == input[Len(EscapePre) + 3]

EscapeRest == SubSeq(input, Len(EscapePre) + 4, Len(input))

\* What the escape of letter c followed by the bytes t gives: its status, the
\* bytes it appends (any stands for the encoding of a \u escape), and how
\* many bytes of t it takes
EscapeGives(c, t) ==
    CASE c \in {34, 92, 47} -> [status |-> "success", add |-> <<c>>, any |-> FALSE, used |-> 0]
      [] c = 98  -> [status |-> "success", add |-> <<8>>, any |-> FALSE, used |-> 0]
      [] c = 102 -> [status |-> "success", add |-> <<12>>, any |-> FALSE, used |-> 0]
      [] c = 110 -> [status |-> "success", add |-> <<10>>, any |-> FALSE, used |-> 0]
      [] c = 114 -> [status |-> "success", add |-> <<13>>, any |-> FALSE, used |-> 0]
      [] c = 116 -> [status |-> "success", add |-> <<9>>, any |-> FALSE, used |-> 0]
      [] c = 120 ->
           IF ~HexDigits(t, 2)
           THEN [status |-> "invalid_hex_escape", add |-> <<>>, any |-> FALSE, used |-> 0]
           ELSE LET hh == HexValue(t[1]) * 16 + HexValue(t[2])
                IN  IF 32 <= hh /\ hh <= 126
                    THEN [status |-> "success", add |-> <<hh>>, any |-> FALSE, used |-> 2]
                    ELSE [status |-> "hex_escape_not_printable", add |-> <<>>,
                          any |-> FALSE, used |-> 0]
      [] c = 117 ->
           IF HexDigits(t, 4)
           THEN [status |-> "success", add |-> <<>>, any |-> TRUE, used |-> 4]
           ELSE [status |-> "invalid_unicode_escape", add |-> <<>>, any |-> FALSE, used |-> 0]
      [] OTHER -> [status |-> "invalid_escape_character", add |-> <<>>, any |-> FALSE, used |-> 0]

\* b is a followed by z with something between them
Between(a, b, z) ==
    /\ Len(b) >= Len(a) + Len(z)
    /\ SubSeq(b, 1, Len(a)) = a
    /\ SubSeq(b, Len(b) - Len(z) + 1, Len(b)) = z

\* C32: inside a string a backslash followed by " \ / gives that byte, by
\* b f n r t the control byte, by xHH the byte HH when 0x20 <= HH <= 0x7E,
\* hex_escape_not_printable when HH is outside that range and
\* invalid_hex_escape when two hex digits are not present; u not followed by
\* four hex digits gives invalid_unicode_escape; any other escaped character
\* gives invalid_escape_character; every failing escape ends the parse with
\* its status and appends nothing.
C32_EscapeTable ==
    pc # "start" =>
        LET g == EscapeGives(EscapeLetter, EscapeRest)
            after == SubSeq(EscapeRest, g.used + 1, Len(EscapeRest))
            loop == StringLoop(input, 2, <<>>)
        IN  IF g.status # "success"
            THEN /\ res.status = g.status
                 /\ res.value = Null
                 /\ loop.status = g.status
                 /\ loop.b = EscapePre
            ELSE IF after # <<>> /\ after[Len(after)] = 34
            THEN LET kept == SubSeq(after, 1, Len(after) - 1) IN
                 /\ res.status = "success"
                 /\ res.value.type = "String"
                 /\ IF g.any
                    THEN Between(EscapePre, res.value.string_value_, kept)
                    ELSE res.value = MkString(EscapePre \o g.add \o kept)
            ELSE /\ res.status = "unexpected_end_of_string"
                 /\ IF g.any THEN Between(EscapePre, loop.b, after)
                    ELSE loop.b = EscapePre \o g.add \o after

\* "a\x7E" has been parsed to the String a~
C32_PrintableHexEscape ==
    /\ pc = "parsed"
    /\ input = <<34, 97, 92, 120, 55, 69, 34>>
    /\ res.status = "success"
    /\ res.value = MkString(<<97, 126>>)

\* "a\x7F" has been refused with hex_escape_not_printable
C32_DelHexEscape ==
    /\ pc = "parsed"
    /\ input = <<34, 97, 92, 120, 55, 70, 34>>
    /\ res.status = "hex_escape_not_printable"

\* ---------------------------------------------------------------------
\* Bytes 80..C1 and F5..FF where a character begins
\* (src/json.cpp:146-179, 1390-1404)
\* ---------------------------------------------------------------------

MaxLeadPre == 1

\* the bytes that begin no character
StrayLeads == (128..193) \cup {245, 248, 255}

\* what follows the byte: nothing, a continuation byte, A, or a lead byte
StrayNexts == {<<>>, <<128>>, <<191>>, <<65>>, <<195>>}

\* a string literal of up to n letters A, a stray byte, what follows it, and
\* the closing quote or the end of the input
StrayInputs(n) ==
    {<<34>> \o Rep(<<65>>, k) \o <<b>> \o nx \o closing :
        k \in 0..n, b \in StrayLeads, nx \in StrayNexts, closing \in {<<>>, <<34>>}}

InitStray == InitParse(StrayInputs(MaxLeadPre))

\* no text of the family parses, so parse is the one step taken
SpecStray == InitStray /\ [][DoParse]_vars

\* the first byte of the text at hand that is not the opening quote or an A
RECURSIVE StrayAt(_)
StrayAt(i) == IF input[i] = 65 THEN StrayAt(i + 1) ELSE i

\* the stray byte
Stray == input[StrayAt(2)]

\* the byte after the stray byte is a continuation byte 80..BF
StrayBeforeContinuation ==
    /\ StrayAt(2) + 1 <= Len(input)
    /\ input[StrayAt(2) + 1] \in 128..191

\* C33 as stated: a byte 0x80..0xBF where a lead byte is expected yields
\* overlong_ascii when the byte after it is a continuation byte and
\* illegal_utf8_character otherwise.
C33_StrayContinuationStatus ==
    (pc # "start" /\ Stray \in 128..191) =>
        res.status = IF StrayBeforeContinuation THEN "overlong_ascii"
                     ELSE "illegal_utf8_character"

\* C33 amended: where a character begins, a byte 0x80..0x9F yields
\* c1_control_code_in_string and a byte 0xA0..0xBF or 0xF5..0xFF yields
\* illegal_utf8_character, whatever follows; a byte 0xC0 or 0xC1 yields
\* overlong_ascii when the byte after it is a continuation byte and
\* illegal_utf8_character otherwise.
C33_StrayByteStatus ==
    pc # "start" =>
        /\ Stray \in 128..159 => res.status = "c1_control_code_in_string"
        /\ Stray \in (160..191) \cup (245..255)
              => res.status = "illegal_utf8_character"
        /\ Stray \in {192, 193} =>
              res.status = IF StrayBeforeContinuation THEN "overlong_ascii"
                           ELSE "illegal_utf8_character"

\* "A" with 85 80 after the A has been refused with c1_control_code_in_string
C33_C1BeforeContinuation ==
    /\ pc = "parsed"
    /\ input = <<34, 65, 133, 128, 34>>
    /\ StrayBeforeContinuation
    /\ res.status = "c1_control_code_in_string"

\* the literal C0 80 has been refused with overlong_ascii
C33_OverlongNul ==
    /\ pc = "parsed"
    /\ input = <<34, 192, 128, 34>>
    /\ res.status = "overlong_ascii"

\* the literal A0 80 has been refused with illegal_utf8_character
C33_LatinBeforeContinuation ==
    /\ pc = "parsed"
    /\ input = <<34, 160, 128, 34>>
    /\ res.status = "illegal_utf8_character"

\* ---------------------------------------------------------------------
\* Invalid byte sequences in a string body (src/json.cpp:1279-1408)
\* ---------------------------------------------------------------------

MaxFormPad == 1

\* what may follow a three-byte form led by ED: nothing, A, a second form
\* led by ED whose second byte is A0, B0, 9F or C3, or the beginning of one
SurrogateFollowers ==
    {<<>>, <<65>>, <<237, 160, 128>>, <<237, 176, 128>>, <<237, 159, 128>>,
     <<237, 195, 128>>, <<237, 176>>, <<237, 176, 65>>}

\* C0 bytes and DEL; the leads C2 and DF before nothing, A, C3 or C0; E0, ED,
\* F0 and F4 with first continuation bytes on both sides of their limits
InvalidForms ==
    {<<0>>, <<10>>, <<31>>, <<127>>}
    \cup {<<l>> \o nx : l \in {194, 223}, nx \in {<<>>, <<65>>, <<195>>, <<192>>}}
    \cup {<<224, b1, b2>> : b1 \in {128, 159, 160}, b2 \in {128, 191}}
    \cup {<<237, b1, 128>> \o f :
             b1 \in {159, 160, 173, 174, 175, 176, 191}, f \in SurrogateFollowers}
    \cup {<<240, b1, 128, b3>> : b1 \in {128, 143, 144}, b3 \in {128, 191}}
    \cup {<<244, b1, 128, 128>> : b1 \in {143, 144, 191}}

\* a string literal holding up to n letters A, a form, and up to n letters A
FormInputs(n) ==
    {StringText(Rep(<<65>>, j) \o f \o Rep(<<65>>, k)) :
        j \in 0..n, k \in 0..n, f \in InvalidForms}

InitForm == InitParse(FormInputs(MaxFormPad))

SpecForm == InitForm /\ [][NextParse]_vars

\* the k-th byte of the form in the text at hand, counted from its lead
\* byte 0; -1 past the end of the text
FormByte(k) ==
    IF StrayAt(2) + k <= Len(input) THEN input[StrayAt(2) + k] ELSE -1

IsContinuation(b) == b \in 128..191

\* the three bytes from the k-th on are a surrogate encoded with the lead ED
SurrogateAt(k) ==
    /\ FormByte(k) = 237
    /\ FormByte(k + 1) \in 160..191
    /\ IsContinuation(FormByte(k + 2))

\* the number a four-byte sequence decodes to
FourByteValue ==
    (FormByte(0) % 8) * 262144 + (FormByte(1) % 64) * 4096
    + (FormByte(2) % 64) * 64 + (FormByte(3) % 64)

FourBytes ==
    /\ FormByte(0) \in 240..244
    /\ \A k \in 1..3 : IsContinuation(FormByte(k))

\* C34: in a string body a raw byte 0x00..0x1F gives
\* non_del_c0_control_code_in_string while 0x7F is accepted as a literal; a
\* 2-byte lead not followed by a continuation byte gives malformed_utf8;
\* lead E0 with first continuation below 0xA0 gives overlong_utf8_0x7ff;
\* lead ED with first continuation at or above 0xA0 that is not part of a
\* CESU-8 pair gives utf16_surrogate_in_utf8; lead F0 with first
\* continuation below 0x90 gives overlong_utf8_0xffff; a 4-byte sequence
\* decoding above U+10FFFF gives utf8_exceeds_utf16_range.
C34_InvalidSequenceStatus ==
    pc # "start" =>
        /\ FormByte(0) \in 0..31
              => res.status = "non_del_c0_control_code_in_string"
        /\ FormByte(0) = 127
              => /\ res.status = "success"
                 /\ res.value = MkString(SubSeq(input, 2, Len(input) - 1))
        /\ (FormByte(0) \in 194..223 /\ ~IsContinuation(FormByte(1)))
              => res.status = "malformed_utf8"
        /\ (FormByte(0) = 224 /\ FormByte(1) \in 128..159
              /\ IsContinuation(FormByte(2)))
              => res.status = "overlong_utf8_0x7ff"
        /\ (SurrogateAt(0) /\ ~SurrogateAt(3))
              => res.status = "utf16_surrogate_in_utf8"
        /\ (FourBytes /\ FormByte(0) = 240 /\ FormByte(1) \in 128..143)
              => res.status = "overlong_utf8_0xffff"
        /\ (FourBytes /\ FourByteValue > 1114111)
              => res.status = "utf8_exceeds_utf16_range"

\* the literal ED AE 80 ED C3 80, a surrogate followed by a malformed
\* sequence, has been refused with illegal_utf8_character
C34_SurrogateBeforeMalformed ==
    /\ pc = "parsed"
    /\ input = <<34, 237, 174, 128, 237, 195, 128, 34>>
    /\ SurrogateAt(0) /\ ~SurrogateAt(3)
    /\ res.status = "illegal_utf8_character"

\* the literal F4 90 80 80 has been refused with utf8_exceeds_utf16_range
C34_AboveLastCodePoint ==
    /\ pc = "parsed"
    /\ input = <<34, 244, 144, 128, 128, 34>>
    /\ res.status = "utf8_exceeds_utf16_range"

\* ---------------------------------------------------------------------
\* The parser step by step (src/json.cpp:939-1434)
\* ---------------------------------------------------------------------

MaxTermLen == 3

\* [ ] { } , : " 1 and the space
TermAlphabet == {91, 93, 123, 125, 44, 58, 34, 49, 32}

\* 20 and 21 brackets, 20 arrays closed, 19 arrays around an object around
\* an array, and
\*   {"a":[1,{"b":"c\n"}],"a":null} x
\*   [1 , 2,3]
\*   ["\u00e9\uD834"]
TermDocs ==
    {Rep(<<91>>, 20), Rep(<<91>>, 21), Rep(<<91>>, 20) \o Rep(<<93>>, 20),
     Rep(<<91>>, 19) \o <<123, 34, 34, 58, 91>>,
     <<123, 34, 97, 34, 58, 91, 49, 44, 123, 34, 98, 34, 58, 34, 99, 92, 110,
       34, 125, 93, 44, 34, 97, 34, 58, 110, 117, 108, 108, 125, 32, 120>>,
     <<91, 49, 32, 44, 32, 50, 44, 51, 93>>,
     <<91, 34, 92, 117, 48, 48, 101, 57, 92, 117, 68, 56, 51, 52, 34, 93>>}

TermInputs(n) == SeqsUpTo(TermAlphabet, n) \cup TermDocs

\* The state of a call parse(ctx, json, p, e, context, depth) at its entry
ParseBegin(p, context, depth, json) ==
    [done |-> FALSE,
     mode |-> IF depth = 0 THEN "ret" ELSE "scan",
     status |-> IF depth = 0 THEN "depth_exceeded" ELSE "success",
     p |-> p, a |-> p, d |-> 1, context |-> context,
     depth |-> depth, json |-> json, stack |-> <<>>]

\* mem holds the running parser: m its state, phase 1 for the first call of
\* the public parse and 2 for the call that looks for trailing content,
\* first what the first call returned, turns the steps taken so far, and
\* starts the cursor each container loop gave to the call it is waiting for
InitTerm ==
    /\ input \in TermInputs(MaxTermLen)
    /\ emplaceMoves \in BOOLEAN
    /\ pc = "running"
    /\ res = NoResult
    /\ v = Null
    /\ text = <<>>
    /\ res2 = NoResult
    /\ nops = 0
    /\ call = NoCall
    /\ mem = [m |-> ParseBegin(1, 0, DEPTH, Null), phase |-> 1,
              first |-> Ret("none", 1, Null), turns |-> 0, starts |-> <<>>]

\* One turn of the dispatch loop of the innermost call, or the test p < e
\* failing and the lines after the loop
TermScan ==
    /\ pc = "running"
    /\ mem.m.mode = "scan"
    /\ LET n == ParseStep(emplaceMoves, input, mem.m) IN
       mem' = [mem EXCEPT !.m = n, !.turns = @ + 1,
                          !.starts = IF Len(n.stack) > Len(mem.m.stack)
                                     THEN Append(@, n.p) ELSE @]
    /\ UNCHANGED <<input, emplaceMoves, pc, res, v, text, res2, nops, call>>

\* The innermost call returns into the loop of case '[' or case '{', which
\* returns in turn or calls parse again
TermReturn ==
    /\ pc = "running"
    /\ mem.m.mode = "ret"
    /\ mem.m.stack # <<>>
    /\ LET n == ParseStep(emplaceMoves, input, mem.m) IN
       mem' = [mem EXCEPT !.m = n, !.turns = @ + 1,
                          !.starts = IF Len(n.stack) < Len(mem.m.stack)
                                     THEN SubSeq(@, 1, Len(@) - 1)
                                     ELSE [@ EXCEPT ![Len(@)] = n.p]]
    /\ UNCHANGED <<input, emplaceMoves, pc, res, v, text, res2, nops, call>>

\* The first call returns success to the public parse, which calls again
TermSecond ==
    /\ pc = "running"
    /\ mem.m.mode = "ret"
    /\ mem.m.stack = <<>>
    /\ mem.phase = 1
    /\ mem.m.status = "success"
    /\ mem' = [mem EXCEPT !.m = ParseBegin(mem.m.p, 0, DEPTH, Null), !.phase = 2,
                          !.first = ParseEnd(mem.m), !.turns = @ + 1]
    /\ UNCHANGED <<input, emplaceMoves, pc, res, v, text, res2, nops, call>>

\* The public parse returns
TermEnd ==
    /\ pc = "running"
    /\ mem.m.mode = "ret"
    /\ mem.m.stack = <<>>
    /\ mem.phase = 2 \/ mem.m.status # "success"
    /\ res' = PublicParseSecond(emplaceMoves, input,
                                IF mem.phase = 1 THEN ParseEnd(mem.m) ELSE mem.first)
    /\ v' = res'.value
    /\ pc' = "parsed"
    /\ mem' = [mem EXCEPT !.turns = @ + 1]
    /\ UNCHANGED <<input, emplaceMoves, text, res2, nops, call>>

NextTerm == TermScan \/ TermReturn \/ TermSecond \/ TermEnd

\* A thread that is inside parse goes on running
SpecTerm == InitTerm /\ [][NextTerm]_vars /\ WF_vars(NextTerm)

\* every turn of the string loop that goes on has moved the cursor forward
StringLoopAdvances ==
    \A p \in 1..Len(input) :
        StringStep(input, p).status = "success" => StringStep(input, p).p > p

\* a turn of the dispatch loop has moved the cursor forward
DispatchAdvances ==
    (mem.m.mode = "scan" /\ mem.m.p <= Len(input) /\ mem'.phase = mem.phase)
        => mem'.m.p > mem.m.p

\* a container loop that calls parse again has moved the cursor forward
ContainerAdvances ==
    (mem.m.mode = "ret" /\ mem.m.stack # <<>>
        /\ Len(mem'.m.stack) = Len(mem.m.stack))
        => mem'.m.p > mem.starts[Len(mem.starts)]

\* C35: parse terminates on every input: every iteration of the dispatch
\* loop and of the string loop consumes at least one input byte, every
\* iteration of the array and object loops either consumes at least one byte
\* or returns, and recursion is at most 20 levels deep, so the number of
\* steps is bounded by a function of the input length.
C35_ParseTerminates ==
    /\ [](/\ StringLoopAdvances
          /\ Len(mem.m.stack) <= DEPTH
          /\ mem.m.mode = "scan" => Len(mem.m.stack) < DEPTH
          /\ mem.turns <= 2 * Len(input) + 4)
    /\ [][DispatchAdvances /\ ContainerAdvances]_vars
    /\ <>(pc = "parsed")

\* 21 brackets have been refused with depth_exceeded, 20 calls deep
C35_DeepestReturn ==
    /\ pc = "parsed"
    /\ input = Rep(<<91>>, 21)
    /\ res.status = "depth_exceeded"
    /\ mem.turns > 40

\* the object loop of {"a":[1,{"b":"c\n"}],"a":null} x is at its second key
C35_ObjectLoopSecondTurn ==
    /\ pc = "running"
    /\ Len(input) = 32
    /\ Len(mem.m.stack) = 1
    /\ mem.m.stack[1].kind = "key"
    /\ mem.m.p > 21

\* ---------------------------------------------------------------------
\* The kind tag and the payload (src/json.cpp:357-553, 652-701, 1176-1179)
\* ---------------------------------------------------------------------

\* type_ tells what n holds: a block only under String, elements only under
\* Array and Object, and so on below
RECURSIVE TagMatchesPayload(_)
TagMatchesPayload(n) ==
    /\ n.str # 0 => n.type = "String"
    /\ n.len # 0 => n.type = "String"
    /\ n.kids # <<>> => n.type \in {"Array", "Object"}
    /\ \A i \in DOMAIN n.kids :
          n.kids[i].type # "Dead" /\ TagMatchesPayload(n.kids[i])

\* the blocks held by n and by the values below it
RECURSIVE BlocksOf(_)
BlocksOf(n) ==
    (IF n.str # 0 THEN {n.str} ELSE {})
    \cup UNION {BlocksOf(n.kids[i]) : i \in DOMAIN n.kids}

\* C36: after any sequence of constructions, assignments, moves, setArray,
\* setObject, operator[] and parse steps, the kind tag of a value identifies
\* its live payload; assigning to a String, Array or Object value releases
\* the old payload before the new kind is installed, so that no block stays
\* on loan without a value that holds it; a moved-from value has kind Null
\* and owns no string buffer.
C36_KindIdentifiesPayload ==
    pc = "alloc" =>
        /\ \A i \in Vals : TagMatchesPayload(mem.vals[i])
        /\ \A b \in mem.heap.live : \E i \in Vals : b.ptr \in BlocksOf(mem.vals[i])
        /\ mem.last.op \in {"move", "move-assign"} =>
              LET o == mem.vals[mem.last.arg[1]]
              IN  o.type = "Null" /\ o.str = 0 /\ o.len = 0 /\ o.kids = <<>>

\* Json x(ctx1, "s"); Json y = Json::parse(ctx1, "[\"s\"]", 5).second;
\* y = std::move(x);  has left y the String with the block of x, the array
\* released, and x Null
C36_StringMovedOverArray ==
    /\ pc = "alloc"
    /\ mem.last.op = "move-assign"
    /\ mem.last.arg = <<1>>
    /\ mem.vals[1] = NullNode(1)
    /\ mem.vals[2] = Node(1, "String", 1, 2, <<>>)
    /\ mem.heap.live = {[ptr |-> 1, by |-> 1]}

\* Json x(ctx1, "s"); x[0] = Json(ctx2, "s");  has left x an Array of one
\* String, the block x had as a String released
C36_StringBecameArray ==
    /\ pc = "alloc"
    /\ mem.last.op = "store"
    /\ mem.vals[1].type = "Array"
    /\ mem.vals[1].str = 0
    /\ Len(mem.vals[1].kids) = 1
    /\ mem.vals[1].kids[1].type = "String"
    /\ Cardinality(mem.heap.live) = 1

\* ---------------------------------------------------------------------
\* Statuses that are never returned (src/json.cpp:1119-1127, 1143-1147,
\* 1405-1407)
\* ---------------------------------------------------------------------

\* every byte as the body of a string literal, alone and before a
\* continuation byte
EveryByteInputs ==
    {<<34, b, 34>> : b \in Byte} \cup {<<34, b, 128, 34>> : b \in Byte}

\* punctuation in and out of place, containers nested up to and beyond the
\* limit, invalid byte sequences, every byte in a string
NeverInputs(t, n, f) ==
    PunctInputs(t) \cup NestInputs(n) \cup FormInputs(f) \cup EveryByteInputs

InitNever ==
    /\ input \in NeverInputs(MaxTail, MaxNest, MaxFormPad)
    /\ emplaceMoves \in BOOLEAN
    /\ pc = "running"
    /\ res = NoResult
    /\ v = Null
    /\ text = <<>>
    /\ res2 = NoResult
    /\ nops = 0
    /\ call = NoCall
    /\ mem = [m |-> ParseBegin(1, 0, DEPTH, Null), phase |-> 1,
              first |-> Ret("none", 1, Null), turns |-> 0, starts |-> <<>>]

SpecNever == InitNever /\ [][NextTerm]_vars

NeverReturned == {"stack_overflow", "object_missing_value",
                  "internal_error_unreachable_code"}

\* C37: for every input, neither the recursive parser nor the public parse
\* ever returns stack_overflow, object_missing_value or
\* internal_error_unreachable_code.
C37_StatusesNeverReturned ==
    /\ mem.m.status \notin NeverReturned
    /\ res.status \notin NeverReturned

\* { "k" : }  has been refused with unexpected_end_of_object by the call
\* that was to read the value, and by the public parse
C37_MissingValueRefusedAsCloser ==
    /\ pc = "parsed"
    /\ input = <<123, 32, 34, 107, 34, 32, 58, 32, 125>>
    /\ mem.m.status = "unexpected_end_of_object"
    /\ res.status = "unexpected_end_of_object"

\* a text of more than DEPTH nested containers has been refused with
\* depth_exceeded
C37_DepthExceededNotOverflow ==
    /\ pc = "parsed"
    /\ res.status = "depth_exceeded"
    /\ mem.turns > 2 * DEPTH

\* ---------------------------------------------------------------------
\* The bytes parse reads (src/json.cpp:948-1102, 1164-1398)
\* ---------------------------------------------------------------------

\* "\uD834\uDD1E\x41"
\* the string of ED AE 80 ED B0 80 (a CESU-8 pair), F0 90 80 80, E0 A0 80
\* [false,-0.5,0e1,12.5e3,10,true,null]
ReadPayloads ==
    {<<34, 92, 117, 68, 56, 51, 52, 92, 117, 68, 68, 49, 69, 92, 120, 52, 49, 34>>,
     <<34, 237, 174, 128, 237, 176, 128, 240, 144, 128, 128, 224, 160, 128, 34>>,
     <<91, 102, 97, 108, 115, 101, 44, 45, 48, 46, 53, 44, 48, 101, 49, 44,
       49, 50, 46, 53, 101, 51, 44, 49, 48, 44, 116, 114, 117, 101, 44,
       110, 117, 108, 108, 93>>}

\* every prefix of the truncated documents and of the payloads above
ReadInputs(n) ==
    TruncInputs(n) \cup TruncDocs(n)
    \cup UNION {{SubSeq(d, 1, m) : m \in 0..Len(d)} : d \in ReadPayloads}

InitReads ==
    /\ input \in ReadInputs(MaxTruncNest)
    /\ emplaceMoves \in BOOLEAN
    /\ pc = "running"
    /\ res = NoResult
    /\ v = Null
    /\ text = <<>>
    /\ res2 = NoResult
    /\ nops = 0
    /\ call = NoCall
    /\ mem = [m |-> ParseBegin(1, 0, DEPTH, Null), phase |-> 1,
              first |-> Ret("none", 1, Null), turns |-> 0, starts |-> <<>>]

SpecReads == InitReads /\ [][NextTerm]_vars

\* The indices StringToDouble(a, e - a, &c) and the test of a[c] after it
\* read: the buffer it is given, and a[c] when a + c < e
DoubleReads(s, a) ==
    LET e == Len(s) + 1
        c == StringToDouble(s, a).processed
    IN  (a..(e - 1)) \cup (IF c > 0 /\ a + c < e THEN {a + c} ELSE {})

\* DispatchReads with the test of case 'f' one byte short: p + 3 <= e
DispatchReads_ShortTest(s, k) ==
    LET e == Len(s) + 1
        c == s[k]
        p == k + 1
    IN  {k} \cup
        (IF c = 102 THEN (IF p + 3 <= e THEN p..(p + 3) ELSE {}) ELSE {})

\* The indices one turn of the dispatch loop reads when the cursor is at k:
\* c = *p++, then the bytes each case looks at, each after the test of the
\* cursor that the code makes first.  The string loop and the calls for the
\* elements of a container are turns of their own.
DispatchReads(s, k) ==
    LET e == Len(s) + 1
        c == s[k]
        p == k + 1
        a == IF k > 1 /\ s[k - 1] = 45 THEN k - 1 ELSE k
    IN  {k} \cup
        (CASE c \in {110, 116} ->
                \* p + 3 <= e && READ32LE(p - 1) == READ32LE("null")
                IF p + 3 <= e THEN (p - 1)..(p + 2) ELSE {}
           [] c = 102 ->
                \* p + 4 <= e && READ32LE(p) == READ32LE("alse")
                IF p + 4 <= e THEN p..(p + 3) ELSE {}
           [] c = 45 ->
                \* p < e && isdigit(*p)
                IF p < e THEN {p} ELSE {}
           [] c = 48 ->
                \* if (p < e) { if (*p == '.') { if (p + 1 == e || !isdigit(p[1]))
                IF p < e
                THEN {p} \cup
                     (IF s[p] = 46
                      THEN (IF p + 1 = e THEN {}
                            ELSE {p + 1} \cup
                                 (IF isdigit(s[p + 1]) THEN DoubleReads(s, a) ELSE {}))
                      ELSE IF s[p] \in {101, 69} THEN DoubleReads(s, a)
                      ELSE {})
                ELSE {}
           [] c \in 49..57 ->
                \* for (...; p < e; ++p) { c = *p & 255; ...
                LET r == IntegerLoop(s, p, [neg |-> FALSE, mag |-> <<c - 48>>], 1)
                    stop == r.p
                IN  {i \in p..stop : i < e}
                    \cup (IF stop < e /\ s[stop] = 46 /\ stop + 1 # e
                          THEN {stop + 1} ELSE {})
                    \cup (IF r.kind = "double" THEN DoubleReads(s, a) ELSE {})
           [] OTHER -> {})

\* The indices one turn of the string loop reads when the cursor is at k
StringReads(s, k) ==
    LET e == Len(s) + 1
        c == s[k]
        p == k + 1
        kind == kJsonStr(c)
    IN  {k} \cup
        (CASE kind = "BACKSLASH" ->
                IF p >= e THEN {}
                ELSE {p} \cup
                     (LET q == p + 1 IN
                      IF s[p] = 120
                      THEN (IF q + 2 <= e THEN q..(q + 1) ELSE {})
                      ELSE IF s[p] = 117
                      THEN (IF q + 4 <= e
                            THEN (q..(q + 3)) \cup
                                 (IF Hex4(s, q, 0) # -1 /\ IsHighSurrogate(Hex4(s, q, 0))
                                     /\ q + 4 + 6 <= e
                                  THEN (q + 4)..(q + 9) ELSE {})
                            ELSE {})
                      ELSE {})
           [] kind \in {"UTF8_2", "EVILUTF8"} ->
                \* p < e && (p[0] & 0300) == 0200
                IF p < e THEN {p} ELSE {}
           [] kind \in {"UTF8_3", "UTF8_3_E0"} ->
                \* p + 2 <= e && ... p[0] ... p[1]
                IF p + 2 <= e THEN p..(p + 1) ELSE {}
           [] kind = "UTF8_3_ED" ->
                \* p + 2 <= e && p[0] >= 0240, then p + 5 <= e && ... p[4]
                IF p + 2 <= e
                THEN (p..(p + 1)) \cup
                     (IF s[p] >= 160 /\ p + 5 <= e THEN p..(p + 4) ELSE {})
                ELSE {}
           [] kind \in {"UTF8_4", "UTF8_4_F0"} ->
                \* p + 3 <= e && ... p[-1], p[0], p[1], p[2]
                IF p + 3 <= e THEN (p - 1)..(p + 2) ELSE {}
           [] OTHER -> {})

\* C38: parse never reads a byte at or beyond s + len and never below s: each
\* multi-byte look-ahead (literals, \x and \u escapes, the second surrogate
\* escape, UTF-8 continuation bytes, the CESU-8 pair, the digit after '.')
\* is guarded by a length check evaluated first, and on return the cursor
\* lies within [s, s + len].
C38_ReadsWithinInput ==
    /\ \A k \in 1..Len(input) :
          /\ DispatchReads(input, k) \subseteq 1..Len(input)
          /\ StringReads(input, k) \subseteq 1..Len(input)
    /\ 1 <= mem.m.p /\ mem.m.p <= Len(input) + 1

\* "\uD834\uDD1E\x4  has been refused with invalid_hex_escape, the cursor
\* before the last byte; the turn on the first backslash read ten bytes
\* after the u and the turn on the last backslash read the x only
C38_LookAheadCutShort ==
    /\ pc = "parsed"
    /\ input = <<34, 92, 117, 68, 56, 51, 52, 92, 117, 68, 68, 49, 69, 92, 120, 52>>
    /\ res.status = "invalid_hex_escape"
    /\ mem.m.p = 16
    /\ StringReads(input, 2) = 2..13
    /\ StringReads(input, 14) = {14, 15}

\* [fals  has been refused with illegal_character without a look-ahead
C38_LiteralCutShort ==
    /\ pc = "parsed"
    /\ input = <<91, 102, 97, 108, 115>>
    /\ res.status = "illegal_character"
    /\ DispatchReads(input, 2) = {2}

\* ---------------------------------------------------------------------
\* Assigning a descendant to its container (src/json.cpp:363-383, 420-460,
\* 499-553)
\* ---------------------------------------------------------------------

\* What the destructor leaves where the element other was, if the block is
\* not written to before it is read again: clear() has set type_ to Null and
\* string_value__ to {nullptr, 0} in a String, Array or Object, and a scalar
\* has no destructor code
Stale(other) == IF other.type \in Owning THEN NullNode(other.ctx) ELSE other

\* this = other where this is mem.vals[i] and other its first element, so
\* this != &other.  clear() runs the destructor of every element and gives
\* their storage back, and then other.type_ and the payload of other are
\* read from that storage.  The read is undefined: either the storage still
\* holds what the destructor left ("stale"), or it holds what the allocator
\* wrote there and the switch on the kind aborts ("fault").
SelfAssigned(op, i, outcome, faults) ==
    LET this == mem.vals[i]
        other == this.kids[1]
        r == Released(mem.heap, this)
        a == CopyAssign(r.h, r.n, Stale(other))
    IN  [mem |-> [vals |-> [mem.vals EXCEPT ![i] = IF outcome = "stale"
                                                    THEN a.n ELSE r.n],
                  heap |-> [a.h EXCEPT !.faults = @ \cup faults],
                  last |-> [op |-> op, ctx |-> this.ctx, mallocs |-> 0,
                            arg |-> <<i, other>>]],
         pc |-> IF outcome = "stale" THEN "alloc" ELSE "crashed"]

\* x = x[0];  x = x["a"];
AllocSelfCopy ==
    /\ pc = "alloc" /\ nops < MaxAllocOps
    /\ \E i \in Vals, outcome \in {"stale", "fault"} :
          /\ mem.vals[i].type \in {"Array", "Object"}
          /\ mem.vals[i].kids # <<>>
          /\ LET s == SelfAssigned("self-copy", i, outcome, {"use after free"})
             IN  mem' = s.mem /\ pc' = s.pc
    /\ nops' = nops + 1
    /\ UNCHANGED <<input, emplaceMoves, res, v, text, res2, call>>

\* x = std::move(x[0]);  x = std::move(x["a"]);  after the read the move
\* assignment also stores Null and {nullptr, 0} into other, in the storage
\* already given back
AllocSelfMove ==
    /\ pc = "alloc" /\ nops < MaxAllocOps
    /\ \E i \in Vals, outcome \in {"stale", "fault"} :
          /\ mem.vals[i].type \in {"Array", "Object"}
          /\ mem.vals[i].kids # <<>>
          /\ LET s == SelfAssigned("self-move", i, outcome,
                                   {"use after free", "write after free"})
             IN  mem' = s.mem /\ pc' = s.pc
    /\ nops' = nops + 1
    /\ UNCHANGED <<input, emplaceMoves, res, v, text, res2, call>>

NextAlias ==
    \/ AllocConstruct \/ AllocParse \/ AllocStore \/ AllocSelfCopy \/ AllocSelfMove
    \/ AllocDestroy

SpecAlias == InitAlloc /\ [][NextAlias]_vars

\* n and b hold the same value: the same kind, the same length of string and
\* the same elements
RECURSIVE SamePayload(_, _)
SamePayload(n, b) ==
    /\ n.type = b.type
    /\ n.len = b.len
    /\ Len(n.kids) = Len(b.kids)
    /\ \A k \in DOMAIN n.kids : SamePayload(n.kids[k], b.kids[k])

\* C39: copy- or move-assigning to a container one of its own descendants
\* (v = v[i], v = v[key], v = std::move(v[i])) leaves v equal to the value
\* the descendant had before: the source is never read after the
\* destination's old payload, which contains it, has been released.
C39_DescendantAssigned ==
    mem.last.op \in {"self-copy", "self-move"} =>
        /\ pc = "alloc"
        /\ "use after free" \notin mem.heap.faults
        /\ SamePayload(mem.vals[mem.last.arg[1]], mem.last.arg[2])

\* Json x = Json::parse(ctx1, "[\"s\"]", 5).second; x = x[0];  has left x
\* Null, not the String "s"
C39_ElementReadAfterRelease ==
    /\ pc = "alloc"
    /\ mem.last.op = "self-copy"
    /\ mem.last.arg[2].type = "String"
    /\ mem.vals[mem.last.arg[1]].type = "Null"
    /\ "use after free" \in mem.heap.faults

\* ---------------------------------------------------------------------
\* toStringPretty against toString (src/json.cpp:703-717, 753-800, 950-955)
\* ---------------------------------------------------------------------

MaxLayoutDepth == 2

\* 1, "a\" b" and "\n  ": a number, a string with an escaped quote before a
\* space, and a string whose text looks like a line break and an indent
LayoutScalars ==
    {<<49>>, <<34, 97, 92, 34, 32, 98, 34>>, <<34, 92, 110, 32, 32, 34>>}

\* [] {} [x] [x,1] {"a":x} and {"a":x,"b c":[1,{}]} for x in d
LayoutOver(d) ==
    {<<91, 93>>, <<123, 125>>}
    \cup {<<91>> \o x \o <<93>> : x \in d}
    \cup {<<91>> \o x \o <<44, 49, 93>> : x \in d}
    \cup {<<123, 34, 97, 34, 58>> \o x \o <<125>> : x \in d}
    \cup {<<123, 34, 97, 34, 58>> \o x
              \o <<44, 34, 98, 32, 99, 34, 58, 91, 49, 44, 123, 125, 93, 125>> :
              x \in d}

RECURSIVE LayoutDocs(_)
LayoutDocs(n) ==
    IF n = 0 THEN LayoutScalars
    ELSE LayoutDocs(n - 1) \cup LayoutOver(LayoutDocs(n - 1))

InitLayout == InitParse(LayoutDocs(MaxLayoutDepth))

\* Json::parse(ctx, text.data(), text.size()) on the text of toStringPretty
DoReparsePretty ==
    /\ pc = "pretty"
    /\ res2' = PublicParse(emplaceMoves, text)
    /\ pc' = "reparsed pretty"
    /\ UNCHANGED <<input, emplaceMoves, res, v, text, nops, call, mem>>

NextLayout == DoParse \/ DoToStringPretty \/ DoReparsePretty

SpecLayout == InitLayout /\ [][NextLayout]_vars

\* One byte of t is read: a space or a line feed outside a string literal
\* is dropped, every other byte kept.  A literal ends at a quote that no
\* backslash escapes.
LayoutStep(t, st) ==
    IF st.i > Len(t) THEN [st EXCEPT !.done = TRUE]
    ELSE
    LET c == t[st.i]
    IN  CASE st.mode = "outside" ->
                [st EXCEPT !.i = @ + 1,
                           !.out = IF c \in {32, 10} THEN @ ELSE Append(@, c),
                           !.mode = IF c = 34 THEN "literal" ELSE "outside"]
          [] st.mode = "literal" ->
                [st EXCEPT !.i = @ + 1,
                           !.out = Append(@, c),
                           !.mode = IF c = 92 THEN "escape"
                                    ELSE IF c = 34 THEN "outside" ELSE "literal"]
          [] st.mode = "escape" ->
                [st EXCEPT !.i = @ + 1, !.out = Append(@, c), !.mode = "literal"]

\* t without the spaces and line feeds that are outside string literals
WithoutLayout(t) ==
    Iterate(LAMBDA st : LayoutStep(t, st), IterateLog,
            [done |-> FALSE, i |-> 1, mode |-> "outside", out |-> <<>>]).out

\* The result of parsing the text of toString
CompactParsed(r) == res2.status = r.status /\ res2.value = r.value

\* C40: for every value v, the text of v.toStringPretty() and of
\* v.toString() parse to the same status and the same value: the pretty
\* form differs from the compact form only by whitespace outside string
\* literals, limited to space and line feed.
C40_PrettyParsesAsCompact ==
    pc = "reparsed pretty" =>
        /\ CompactParsed(PublicParse(emplaceMoves, toString(v)))
        /\ WithoutLayout(text) = toString(v)

\* {"a":"\n  ","b c":[1,{}]} was laid out on four lines, with a space after
\* the comma of the array, and parsed again with success
C40_LaidOutAndParsed ==
    /\ pc = "reparsed pretty"
    /\ input = <<123, 34, 97, 34, 58, 34, 92, 110, 32, 32, 34, 44, 34, 98, 32,
                 99, 34, 58, 91, 49, 44, 123, 125, 93, 125>>
    /\ text = <<123, 10, 32, 32, 34, 97, 34, 58, 32, 34, 92, 110, 32, 32, 34,
                44, 10, 32, 32, 34, 98, 32, 99, 34, 58, 32, 91, 49, 44, 32,
                123, 125, 93, 10, 125>>
    /\ res2.status = "success"

\* The text of [{"a":"a\" b","b c":[1,{}]},1] has an indent after the
\* escaped quote and the space of a string, and lost it when stripped
C40_IndentAfterEscapedQuote ==
    /\ pc = "reparsed pretty"
    /\ input = <<91, 123, 34, 97, 34, 58, 34, 97, 92, 34, 32, 98, 34, 44, 34,
                 98, 32, 99, 34, 58, 91, 49, 44, 123, 125, 93, 125, 44, 49, 93>>
    /\ Len(text) > Len(input)
    /\ WithoutLayout(text) = input

=============================================================================
